---- MODULE Spec2Model ----
(***************************************************************************)
(* A model of the GuedzLang interpreter: the tokenizer (src/src/lexer.rs,  *)
(* src/src/token.rs), the Pratt parser (src/src/parser.rs), the canonical  *)
(* printer (src/src/ast.rs) and the tree-walking evaluator                 *)
(* (src/src/evaluator.rs).                                                 *)
(*                                                                         *)
(* Text is a sequence of one-character strings.  A Rust `Option` is either *)
(* the value or NONE.  Every parsing operator returns a record             *)
(* [p, val, st]: the parser after the call, the value returned, and        *)
(* st = "ok" when the call returns, "panic" when an `expect` aborts the    *)
(* thread, "diverge" when a loop of the code never ends.                   *)
(***************************************************************************)
EXTENDS Integers, Sequences, FiniteSets, TLC

(***************************************************************************)
(* Characters                                                              *)
(***************************************************************************)

\* '\0', the character Lexer::read_char stores once the input is exhausted
NUL == "NUL"

\* char::is_ascii_whitespace: space, tab, line feed, form feed, carriage return
Whitespace == {" ", "\t", "\n", "\f", "\r"}

Letters ==
    {"a","b","c","d","e","f","g","h","i","j","k","l","m","n","o","p","q","r",
     "s","t","u","v","w","x","y","z",
     "A","B","C","D","E","F","G","H","I","J","K","L","M","N","O","P","Q","R",
     "S","T","U","V","W","X","Y","Z"}

DigitChars == <<"0","1","2","3","4","5","6","7","8","9">>

is_letter(ch) == ch \in Letters \/ ch = "_"

is_digit(ch) == \E i \in 1..10 : DigitChars[i] = ch

\* the numeric value of a decimal digit character
DigitValue(ch) == (CHOOSE i \in 1..10 : DigitChars[i] = ch) - 1

(***************************************************************************)
(* Tokens (token.rs)                                                       *)
(***************************************************************************)

TokenKind ==
    {"Illegal", "EOF", "Ident", "Int", "Assign", "Plus", "Minus", "Bang",
     "Asterisk", "Slash", "LT", "GT", "EQ", "NotEQ", "Comma", "Semicolon",
     "LParen", "RParen", "LBrace", "RBrace", "Function", "Let", "True",
     "False", "If", "Else", "Return"}

Token(kind, literal) == [kind |-> kind, literal |-> literal]

\* #[derive(Default)] on Token: kind Illegal (the #[default] variant), literal ""
DefaultToken == Token("Illegal", <<>>)

\* a keyword table that has lost `else`
lookup_keywords_no_else(identifier) ==
    CASE identifier = <<"f","n">> -> "Function"
      [] identifier = <<"l","e","t">> -> "Let"
      [] identifier = <<"t","r","u","e">> -> "True"
      [] identifier = <<"f","a","l","s","e">> -> "False"
      [] identifier = <<"i","f">> -> "If"
      [] identifier = <<"r","e","t","u","r","n">> -> "Return"
      [] OTHER -> "Ident"

lookup_keywords(identifier) ==
    CASE identifier = <<"f","n">> -> "Function"
      [] identifier = <<"l","e","t">> -> "Let"
      [] identifier = <<"t","r","u","e">> -> "True"
      [] identifier = <<"f","a","l","s","e">> -> "False"
      [] identifier = <<"i","f">> -> "If"
      [] identifier = <<"e","l","s","e">> -> "Else"
      [] identifier = <<"r","e","t","u","r","n">> -> "Return"
      [] OTHER -> "Ident"

(***************************************************************************)
(* Lexer (lexer.rs).  A lexer is [input, position, read_position, ch].     *)
(***************************************************************************)

\* a read_char that stays where it is once the input is exhausted
read_char_stay(lx) ==
    IF lx.position >= Len(lx.input) /\ lx.read_position > lx.position
    THEN lx
    ELSE [lx EXCEPT
            !.ch = IF lx.read_position >= Len(lx.input)
                   THEN NUL
                   ELSE lx.input[lx.read_position + 1],
            !.position = lx.read_position,
            !.read_position = lx.read_position + 1]

read_char(lx) ==
    [lx EXCEPT
        !.ch = IF lx.read_position >= Len(lx.input)
               THEN NUL
               ELSE lx.input[lx.read_position + 1],
        !.position = lx.read_position,
        !.read_position = lx.read_position + 1]

Lexer_new(input) ==
    read_char([input |-> input, position |-> 0, read_position |-> 0, ch |-> NUL])

\* a new_token that forgets the character
new_token_blank(kind, ch) == Token(kind, <<>>)

new_token(kind, ch) == Token(kind, <<ch>>)

RECURSIVE skip_whitespace(_)

\* a skip_whitespace that knows the space character only
skip_spaces_only(lx) ==
    IF lx.ch = " " THEN skip_whitespace(read_char(lx)) ELSE lx

skip_whitespace(lx) ==
    IF lx.ch \in Whitespace THEN skip_whitespace(read_char(lx)) ELSE lx

\* the loop of read_identifier: [lx, literal] after pushing the run onto acc
RECURSIVE read_identifier_from(_, _)
read_identifier_from(lx, acc) ==
    IF is_letter(lx.ch)
    THEN read_identifier_from(read_char(lx), Append(acc, lx.ch))
    ELSE [lx |-> lx, literal |-> acc]

read_identifier(lx) == read_identifier_from(lx, <<>>)

RECURSIVE read_number_from(_, _)
read_number_from(lx, acc) ==
    IF is_digit(lx.ch)
    THEN read_number_from(read_char(lx), Append(acc, lx.ch))
    ELSE [lx |-> lx, literal |-> acc]

read_number(lx) == read_number_from(lx, <<>>)

\* a table of one-character tokens with `<` and `>` exchanged
SingleCharKind_swapped(ch) ==
    CASE ch = "=" -> "Assign"
      [] ch = ";" -> "Semicolon"
      [] ch = "(" -> "LParen"
      [] ch = ")" -> "RParen"
      [] ch = "," -> "Comma"
      [] ch = "+" -> "Plus"
      [] ch = "{" -> "LBrace"
      [] ch = "}" -> "RBrace"
      [] ch = "-" -> "Minus"
      [] ch = "!" -> "Bang"
      [] ch = "*" -> "Asterisk"
      [] ch = "/" -> "Slash"
      [] ch = "<" -> "GT"
      [] ch = ">" -> "LT"
      [] OTHER -> "none"

\* the arms of the match in Lexer::next_token that build a one-character token
SingleCharKind(ch) ==
    CASE ch = "=" -> "Assign"
      [] ch = ";" -> "Semicolon"
      [] ch = "(" -> "LParen"
      [] ch = ")" -> "RParen"
      [] ch = "," -> "Comma"
      [] ch = "+" -> "Plus"
      [] ch = "{" -> "LBrace"
      [] ch = "}" -> "RBrace"
      [] ch = "-" -> "Minus"
      [] ch = "!" -> "Bang"
      [] ch = "*" -> "Asterisk"
      [] ch = "/" -> "Slash"
      [] ch = "<" -> "LT"
      [] ch = ">" -> "GT"
      [] OTHER -> "none"

\* the `_` arm returns before the trailing read_char: an identifier and a
\* number have consumed their run, an Illegal token has consumed nothing
identifier_token(r) ==
    [lx |-> r.lx, token |-> Token(lookup_keywords(r.literal), r.literal)]

number_token(r) == [lx |-> r.lx, token |-> Token("Int", r.literal)]

Lexer_next_token_default(l1) ==
    IF is_letter(l1.ch) THEN identifier_token(read_identifier(l1))
    ELSE IF is_digit(l1.ch) THEN number_token(read_number(l1))
    ELSE [lx |-> l1, token |-> new_token("Illegal", l1.ch)]

\* the match on self.ch in Lexer::next_token, after skip_whitespace
next_token_at(l1) ==
    IF SingleCharKind(l1.ch) # "none"
    THEN [lx |-> read_char(l1), token |-> new_token(SingleCharKind(l1.ch), l1.ch)]
    ELSE IF l1.ch = NUL
    THEN [lx |-> read_char(l1), token |-> Token("EOF", <<>>)]
    ELSE Lexer_next_token_default(l1)

\* Lexer::next_token: [lx, token], the lexer after the call and the token returned
Lexer_next_token(lx) == next_token_at(skip_whitespace(lx))

(***************************************************************************)
(* AST (ast.rs)                                                            *)
(***************************************************************************)

\* Option::None
NONE == [node |-> "None"]

\* Option::Some(vec), for the two functions that return Option<Vec<..>>
Some(vec) == [node |-> "Some", vec |-> vec]

Identifier(token) ==
    [node |-> "Identifier", token |-> token, value |-> token.literal]

IntegerLiteral(token, value) ==
    [node |-> "Integer", token |-> token, value |-> value]

Boolean(token, value) ==
    [node |-> "Boolean", token |-> token, value |-> value]

PrefixExpression(token, right) ==
    [node |-> "Prefix", token |-> token, operator |-> token.literal, right |-> right]

InfixExpression(token, left, right) ==
    [node |-> "Infix", token |-> token, left |-> left,
     operator |-> token.literal, right |-> right]

IfExpression(token, condition, consequence, alternative) ==
    [node |-> "If", token |-> token, condition |-> condition,
     consequence |-> consequence, alternative |-> alternative]

FunctionLiteral(token, parameters, body) ==
    [node |-> "Function", token |-> token, parameters |-> parameters, body |-> body]

CallExpression(token, function, arguments) ==
    [node |-> "Call", token |-> token, function |-> function, arguments |-> arguments]

BlockStatement(token, statements) ==
    [node |-> "Block", token |-> token, statements |-> statements]

LetStatement(token, name, value) ==
    [node |-> "Let", token |-> token, name |-> name, value |-> value]

ReturnStatement(token, return_value) ==
    [node |-> "Return", token |-> token, return_value |-> return_value]

ExpressionStatement(token, expression) ==
    [node |-> "Expression", token |-> token, expression |-> expression]

(***************************************************************************)
(* Parser (parser.rs).  A parser is [lexer, cur_token, peek_token, errors]. *)
(***************************************************************************)

Lowest == 0
Equals == 1
LessGreater == 2
Sum == 3
Product == 4
Prefix == 5
Call == 6

\* a precedence table in which `+` and `-` bind as tightly as `*` and `/`
precedence_map_flat(token_kind) ==
    CASE token_kind \in {"EQ", "NotEQ"} -> Equals
      [] token_kind \in {"LT", "GT"} -> LessGreater
      [] token_kind \in {"Plus", "Minus", "Slash", "Asterisk"} -> Product
      [] token_kind = "LParen" -> Call
      [] OTHER -> Lowest

\* a precedence_map that ranks `=` with the equality operators
precedence_map_assign(token_kind) ==
    CASE token_kind \in {"EQ", "NotEQ", "Assign"} -> Equals
      [] token_kind \in {"LT", "GT"} -> LessGreater
      [] token_kind \in {"Plus", "Minus"} -> Sum
      [] token_kind \in {"Slash", "Asterisk"} -> Product
      [] token_kind = "LParen" -> Call
      [] OTHER -> Lowest

precedence_map(token_kind) ==
    CASE token_kind \in {"EQ", "NotEQ"} -> Equals
      [] token_kind \in {"LT", "GT"} -> LessGreater
      [] token_kind \in {"Plus", "Minus"} -> Sum
      [] token_kind \in {"Slash", "Asterisk"} -> Product
      [] token_kind = "LParen" -> Call
      [] OTHER -> Lowest

\* the table filled by register_prefix in Parser::new
prefix_parse_fns ==
    [Ident |-> "parse_identifier", Int |-> "parse_integer_literal",
     Bang |-> "parse_prefix_expression", Minus |-> "parse_prefix_expression",
     True |-> "parse_boolean", False |-> "parse_boolean",
     LParen |-> "parse_grouped_expression", If |-> "parse_if_expression",
     Function |-> "parse_function_literal"]

\* the table filled by register_infix in Parser::new
infix_parse_fns ==
    [Plus |-> "parse_infix_expression", Minus |-> "parse_infix_expression",
     Slash |-> "parse_infix_expression", Asterisk |-> "parse_infix_expression",
     EQ |-> "parse_infix_expression", NotEQ |-> "parse_infix_expression",
     LT |-> "parse_infix_expression", GT |-> "parse_infix_expression",
     LParen |-> "parse_call_expression"]

\* the outcomes of a parsing call
Ok(p, val) == [p |-> p, val |-> val, st |-> "ok"]
Panic(p, message) == [p |-> p, val |-> message, st |-> "panic"]
Diverge(p) == [p |-> p, val |-> NONE, st |-> "diverge"]

\* a next_token that drops the token waiting in peek_token
next_token_skipping(p, r) ==
    [p EXCEPT !.cur_token = r.token, !.peek_token = r.token, !.lexer = r.lx]

\* Parser::next_token
next_token_of(p, r) ==
    [p EXCEPT !.cur_token = p.peek_token, !.peek_token = r.token, !.lexer = r.lx]

next_token(p) == next_token_of(p, Lexer_next_token(p.lexer))

Parser_new(lexer) ==
    next_token(next_token(
        [lexer |-> lexer, cur_token |-> DefaultToken, peek_token |-> DefaultToken,
         errors |-> <<>>]))

peek_token_is(p, token_kind) == p.peek_token.kind = token_kind

cur_token_is(p, token_kind) == p.cur_token.kind = token_kind

\* a peek_error that keeps only its own message
peek_error_alone(p, token_kind) ==
    [p EXCEPT !.errors =
        <<[msg |-> "expected next token", expected |-> token_kind,
           got |-> p.peek_token.kind]>>]

\* format!("expected next token to be {:?}, got {:?} instead", ..)
peek_error(p, token_kind) ==
    [p EXCEPT !.errors = Append(@,
        [msg |-> "expected next token", expected |-> token_kind,
         got |-> p.peek_token.kind])]

\* an expect_peek that steps over the token it did not expect
expect_peek_advancing(p, token_kind) ==
    IF p.peek_token.kind = token_kind
    THEN [p |-> next_token(p), ok |-> TRUE]
    ELSE [p |-> next_token(peek_error(p, token_kind)), ok |-> FALSE]

\* [p, ok]: the parser after the call and the boolean returned
expect_peek(p, token_kind) ==
    IF peek_token_is(p, token_kind)
    THEN [p |-> next_token(p), ok |-> TRUE]
    ELSE [p |-> peek_error(p, token_kind), ok |-> FALSE]

\* format!("no prefix parse function for '{}' found", token_kind)
no_prefix_parse_fn_error(p, token_kind) ==
    [p EXCEPT !.errors = Append(@,
        [msg |-> "no prefix parse function", token_kind |-> token_kind])]

peek_precedence(p) == precedence_map(p.peek_token.kind)

cur_precedence(p) == precedence_map(p.cur_token.kind)

(***************************************************************************)
(* Integers.  IntBits is the width of the model's signed integer type (the *)
(* code's is i64); I64_MIN and I64_MAX are its bounds.                     *)
(***************************************************************************)

IntBits == 8

I64_MAX == 2^(IntBits - 1) - 1

I64_MIN == -(2^(IntBits - 1))

\* str::parse::<i64> on a run of digits: each digit is accumulated with a
\* checked multiply-and-add, and overflow gives Err
RECURSIVE parse_i64_from(_, _, _)
parse_i64_from(literal, i, acc) ==
    IF i > Len(literal)
    THEN [ok |-> TRUE, value |-> acc]
    ELSE LET next == acc * 10 + DigitValue(literal[i])
         IN  IF next > I64_MAX
             THEN [ok |-> FALSE, value |-> 0]
             ELSE parse_i64_from(literal, i + 1, next)

parse_i64(literal) ==
    IF literal = <<>> \/ \E i \in 1..Len(literal) : ~is_digit(literal[i])
    THEN [ok |-> FALSE, value |-> 0]
    ELSE parse_i64_from(literal, 1, 0)

(***************************************************************************)
(* Parser: expressions and statements.                                     *)
(*                                                                         *)
(* The three mutually recursive entry points (parse_expression,            *)
(* parse_statement, parse_block_statement) are called through parse_rec.   *)
(* A function of the code that makes several calls in sequence is written  *)
(* as a chain of operators, one per call, each taking the outcome of the   *)
(* call before it.                                                         *)
(***************************************************************************)

RECURSIVE parse_rec(_, _, _)

\* self.parse_expression(precedence_level)
call_parse_expression(p, precedence_level) ==
    parse_rec("parse_expression", p, precedence_level)

\* self.parse_statement()
call_parse_statement(p) == parse_rec("parse_statement", p, Lowest)

\* self.parse_block_statement()
call_parse_block_statement(p) == parse_rec("parse_block_statement", p, Lowest)

parse_identifier(p) == Ok(p, Identifier(p.cur_token))

\* the match on self.cur_token.literal.parse::<i64>()
integer_literal_of(p, r) ==
    IF r.ok
    THEN Ok(p, IntegerLiteral(p.cur_token, r.value))
    ELSE Ok([p EXCEPT !.errors = Append(@,
                [msg |-> "could not parse as integer",
                 literal |-> p.cur_token.literal])],
            NONE)

parse_integer_literal(p) == integer_literal_of(p, parse_i64(p.cur_token.literal))

parse_boolean(p) == Ok(p, Boolean(p.cur_token, cur_token_is(p, "True")))

\* the match on the operand r of parse_prefix_expression
prefix_expression_of(p, r) ==
    IF r.st # "ok" THEN r
    ELSE IF r.val = NONE THEN Ok(r.p, NONE)
    ELSE Ok(r.p, PrefixExpression(p.cur_token, r.val))

parse_prefix_expression(p) ==
    prefix_expression_of(p, call_parse_expression(next_token(p), Prefix))

\* the match on the right operand r of parse_infix_expression; p1 is the
\* parser standing on the operator
infix_expression_of(p1, left, r) ==
    IF r.st # "ok" THEN r
    ELSE IF r.val = NONE THEN Ok(r.p, NONE)
    ELSE Ok(r.p, InfixExpression(p1.cur_token, left, r.val))

infix_expression_at(p1, left) ==
    infix_expression_of(p1, left,
        call_parse_expression(next_token(p1), cur_precedence(p1)))

parse_infix_expression(p, left) == infix_expression_at(next_token(p), left)

\* parse_grouped_expression after expect_peek(RParen) gave e
grouped_expression_close(r, e) ==
    IF ~e.ok THEN Ok(e.p, NONE) ELSE Ok(e.p, r.val)

\* parse_grouped_expression after the inner expression r
grouped_expression_of(r) ==
    IF r.st # "ok" THEN r
    ELSE grouped_expression_close(r, expect_peek(r.p, "RParen"))

parse_grouped_expression(p) ==
    grouped_expression_of(call_parse_expression(next_token(p), Lowest))

\* parse_if_expression, step by step; p is the parser standing on `if`
if_after_alternative(p, condition, consequence, alt) ==
    IF alt.st # "ok" THEN alt
    ELSE Ok(alt.p, IfExpression(p.cur_token, condition, consequence, alt.val))

if_after_else(p, condition, consequence, e) ==
    IF ~e.ok THEN Ok(e.p, NONE)
    ELSE if_after_alternative(p, condition, consequence,
                              call_parse_block_statement(e.p))

if_after_consequence(p, condition, b) ==
    IF b.st # "ok" THEN b
    ELSE IF ~peek_token_is(b.p, "Else")
    THEN Ok(b.p, IfExpression(p.cur_token, condition, b.val, NONE))
    ELSE if_after_else(p, condition, b.val, expect_peek(next_token(b.p), "LBrace"))

if_after_lbrace(p, condition, e) ==
    IF ~e.ok THEN Ok(e.p, NONE)
    ELSE if_after_consequence(p, condition, call_parse_block_statement(e.p))

if_after_rparen(p, condition, e) ==
    IF ~e.ok THEN Ok(e.p, NONE)
    ELSE if_after_lbrace(p, condition, expect_peek(e.p, "LBrace"))

if_after_condition(p, r) ==
    IF r.st # "ok" THEN r
    ELSE IF r.val = NONE THEN Panic(r.p, "error parsing condition")
    ELSE if_after_rparen(p, r.val, expect_peek(r.p, "RParen"))

if_after_lparen(p, e) ==
    IF ~e.ok THEN Ok(e.p, NONE)
    ELSE if_after_condition(p, call_parse_expression(next_token(e.p), Lowest))

parse_if_expression(p) == if_after_lparen(p, expect_peek(p, "LParen"))

\* the `while self.peek_token_is(&TokenKind::Comma)` loop of
\* parse_function_parameters; p2 is the parser two tokens on
RECURSIVE parse_function_parameters_loop(_, _)

function_parameters_push(p2, identifiers) ==
    parse_function_parameters_loop(p2, Append(identifiers, Identifier(p2.cur_token)))

parse_function_parameters_loop(p, identifiers) ==
    IF peek_token_is(p, "Comma")
    THEN function_parameters_push(next_token(next_token(p)), identifiers)
    ELSE [p |-> p, val |-> identifiers]

function_parameters_close(r, e) ==
    IF ~e.ok THEN [p |-> e.p, val |-> NONE] ELSE [p |-> e.p, val |-> Some(r.val)]

function_parameters_rest(r) ==
    function_parameters_close(r, expect_peek(r.p, "RParen"))

function_parameters_first(p1) ==
    function_parameters_rest(
        parse_function_parameters_loop(p1, <<Identifier(p1.cur_token)>>))

\* [p, val]: val is Some(the Vec<Identifier>), or NONE
parse_function_parameters(p) ==
    IF peek_token_is(p, "RParen")
    THEN [p |-> next_token(p), val |-> Some(<<>>)]
    ELSE function_parameters_first(next_token(p))

\* parse_function_literal, step by step; p is the parser standing on `fn`
function_after_body(p, parameters, body) ==
    IF body.st # "ok" THEN body
    ELSE Ok(body.p, FunctionLiteral(p.cur_token, parameters, body.val))

function_after_lbrace(p, parameters, e) ==
    IF ~e.ok THEN Ok(e.p, NONE)
    ELSE function_after_body(p, parameters, call_parse_block_statement(e.p))

function_after_parameters(p, params) ==
    IF params.val = NONE THEN Panic(params.p, "error parsing parameters")
    ELSE function_after_lbrace(p, params.val.vec, expect_peek(params.p, "LBrace"))

function_after_lparen(p, e) ==
    IF ~e.ok THEN Ok(e.p, NONE)
    ELSE function_after_parameters(p, parse_function_parameters(e.p))

parse_function_literal(p) == function_after_lparen(p, expect_peek(p, "LParen"))

\* the `while self.peek_token_is(&TokenKind::Comma)` loop of parse_call_arguments
RECURSIVE parse_call_arguments_loop(_, _)

\* an argument loop that puts each later argument in front of the earlier ones
call_arguments_push_front(args, r) ==
    IF r.st # "ok" THEN r
    ELSE IF r.val = NONE THEN Panic(r.p, "error parsing arguments")
    ELSE parse_call_arguments_loop(r.p, <<r.val>> \o args)

call_arguments_push(args, r) ==
    IF r.st # "ok" THEN r
    ELSE IF r.val = NONE THEN Panic(r.p, "error parsing arguments")
    ELSE parse_call_arguments_loop(r.p, Append(args, r.val))

parse_call_arguments_loop(p, args) ==
    IF peek_token_is(p, "Comma")
    THEN call_arguments_push(args,
            call_parse_expression(next_token(next_token(p)), Lowest))
    ELSE Ok(p, args)

call_arguments_close(rest, e) ==
    IF ~e.ok THEN Ok(e.p, NONE) ELSE Ok(e.p, Some(rest.val))

call_arguments_rest(rest) ==
    IF rest.st # "ok" THEN rest
    ELSE call_arguments_close(rest, expect_peek(rest.p, "RParen"))

call_arguments_first(r) ==
    IF r.st # "ok" THEN r
    ELSE IF r.val = NONE THEN Panic(r.p, "error parsing arguments")
    ELSE call_arguments_rest(parse_call_arguments_loop(r.p, <<r.val>>))

\* val is Some(the Vec<ExpressionNode>), or NONE
parse_call_arguments(p) ==
    IF peek_token_is(p, "RParen")
    THEN Ok(next_token(p), Some(<<>>))
    ELSE call_arguments_first(call_parse_expression(next_token(p), Lowest))

\* the `.expect("error parsing arguments")` of parse_call_expression; p1 is
\* the parser standing on `(`
call_expression_of(p1, function, args) ==
    IF args.st # "ok" THEN args
    ELSE IF args.val = NONE THEN Panic(args.p, "error parsing arguments")
    ELSE Ok(args.p, CallExpression(p1.cur_token, function, args.val.vec))

call_expression_at(p1, function) ==
    call_expression_of(p1, function, parse_call_arguments(p1))

parse_call_expression(p, function) == call_expression_at(next_token(p), function)

\* prefix_fn(self) for the function registered under name
call_prefix_fn(name, p) ==
    CASE name = "parse_identifier" -> parse_identifier(p)
      [] name = "parse_integer_literal" -> parse_integer_literal(p)
      [] name = "parse_prefix_expression" -> parse_prefix_expression(p)
      [] name = "parse_boolean" -> parse_boolean(p)
      [] name = "parse_grouped_expression" -> parse_grouped_expression(p)
      [] name = "parse_if_expression" -> parse_if_expression(p)
      [] name = "parse_function_literal" -> parse_function_literal(p)

\* infix_func(self, left) for the function registered under name
call_infix_fn(name, p, left) ==
    CASE name = "parse_infix_expression" -> parse_infix_expression(p, left)
      [] name = "parse_call_expression" -> parse_call_expression(p, left)

\* the `while` loop of parse_expression, entered with left_exp
RECURSIVE parse_expression_loop(_, _, _)

parse_expression_next(r, precedence_level) ==
    IF r.st # "ok" THEN r
    ELSE parse_expression_loop(r.p, r.val, precedence_level)

parse_expression_loop(p, left_exp, precedence_level) ==
    IF ~peek_token_is(p, "Semicolon") /\ precedence_level < peek_precedence(p)
    THEN IF p.peek_token.kind \in DOMAIN infix_parse_fns
         THEN IF left_exp = NONE
              THEN Panic(p, "left_exp is None, but it should be Some(ExpressionNode)")
              ELSE parse_expression_next(
                      call_infix_fn(infix_parse_fns[p.peek_token.kind], p, left_exp),
                      precedence_level)
         ELSE Diverge(p)
    ELSE Ok(p, left_exp)

parse_expression(p, precedence_level) ==
    IF p.cur_token.kind \in DOMAIN prefix_parse_fns
    THEN parse_expression_next(
            call_prefix_fn(prefix_parse_fns[p.cur_token.kind], p), precedence_level)
    ELSE Ok(no_prefix_parse_fn_error(p, p.cur_token.kind), NONE)

\* the `if self.peek_token_is(&TokenKind::Semicolon) { self.next_token(); }` of
\* the three statement parsers
skip_semicolon(p) == IF peek_token_is(p, "Semicolon") THEN next_token(p) ELSE p

return_statement_of(p, r) ==
    IF r.st # "ok" THEN r
    ELSE Ok(skip_semicolon(r.p), ReturnStatement(p.cur_token, r.val))

parse_return_statement(p) ==
    return_statement_of(p, call_parse_expression(next_token(p), Lowest))

\* parse_let_statement, step by step; p is the parser standing on `let`
let_after_value(p, name, r) ==
    IF r.st # "ok" THEN r
    ELSE Ok(skip_semicolon(r.p), LetStatement(p.cur_token, name, r.val))

let_after_assign(p, name, e) ==
    IF ~e.ok THEN Ok(e.p, NONE)
    ELSE let_after_value(p, name, call_parse_expression(next_token(e.p), Lowest))

let_after_ident(p, e) ==
    IF ~e.ok THEN Ok(e.p, NONE)
    ELSE let_after_assign(p, Identifier(e.p.cur_token), expect_peek(e.p, "Assign"))

parse_let_statement(p) == let_after_ident(p, expect_peek(p, "Ident"))

expression_statement_of(p, r) ==
    IF r.st # "ok" THEN r
    ELSE Ok(skip_semicolon(r.p), ExpressionStatement(p.cur_token, r.val))

parse_expression_statement(p) ==
    expression_statement_of(p, call_parse_expression(p, Lowest))

parse_statement(p) ==
    CASE p.cur_token.kind = "Let" -> parse_let_statement(p)
      [] p.cur_token.kind = "Return" -> parse_return_statement(p)
      [] OTHER -> parse_expression_statement(p)

\* The body of the two statement loops (parse_program, parse_block_statement):
\* the statement r is pushed when it is Some, and the parser advances one token.
\* val is the statement list after the iteration.
loop_iteration_of(statements, r) ==
    IF r.st # "ok" THEN r
    ELSE Ok(next_token(r.p),
            IF r.val = NONE THEN statements ELSE Append(statements, r.val))

loop_iteration(p, statements) ==
    loop_iteration_of(statements, call_parse_statement(p))

\* An iteration reads only the lexer and the two-token window, and the loop
\* conditions read only cur_token: an iteration that leaves the three as it
\* found them is repeated for ever.
SameWindow(p, q) ==
    /\ p.lexer = q.lexer
    /\ p.cur_token = q.cur_token
    /\ p.peek_token = q.peek_token

\* the `while` loop of parse_block_statement
RECURSIVE parse_block_statement_loop(_, _)

block_statement_next(p, r) ==
    IF r.st # "ok" THEN r
    ELSE IF SameWindow(r.p, p) THEN Diverge(r.p)
    ELSE parse_block_statement_loop(r.p, r.val)

parse_block_statement_loop(p, statements) ==
    IF ~cur_token_is(p, "RBrace") /\ ~cur_token_is(p, "EOF")
    THEN block_statement_next(p, loop_iteration(p, statements))
    ELSE Ok(p, statements)

block_statement_of(p, r) ==
    IF r.st # "ok" THEN r
    ELSE Ok(r.p, BlockStatement(p.cur_token, r.val))

parse_block_statement(p) ==
    block_statement_of(p, parse_block_statement_loop(next_token(p), <<>>))

parse_rec(fn, p, precedence_level) ==
    CASE fn = "parse_expression" -> parse_expression(p, precedence_level)
      [] fn = "parse_statement" -> parse_statement(p)
      [] fn = "parse_block_statement" -> parse_block_statement(p)

\* the `while` loop of parse_program
RECURSIVE parse_program_loop(_, _)

program_next(p, r) ==
    IF r.st # "ok" THEN r
    ELSE IF SameWindow(r.p, p) THEN Diverge(r.p)
    ELSE parse_program_loop(r.p, r.val)

parse_program_loop(p, statements) ==
    IF ~cur_token_is(p, "EOF")
    THEN program_next(p, loop_iteration(p, statements))
    ELSE Ok(p, statements)

\* Parser::parse_program; val is Program.statements
parse_program(p) == parse_program_loop(p, <<>>)

(***************************************************************************)
(* Canonical printer (ast.rs, Node::print_string)                          *)
(***************************************************************************)

RECURSIVE print_string(_)
RECURSIVE print_statements(_, _)
RECURSIVE print_list(_, _)

\* the `for statement in ..` loops of Program and BlockStatement, from index i
print_statements(statements, i) ==
    IF i > Len(statements) THEN <<>>
    ELSE print_string(statements[i]) \o print_statements(statements, i + 1)

\* a list printer that separates the items by a space alone
print_list_spaces(items, i) ==
    IF i > Len(items) THEN <<>>
    ELSE print_string(items[i])
         \o (IF i # Len(items) THEN <<" ">> ELSE <<>>)
         \o print_list(items, i + 1)

\* the `for (i, x) in ..enumerate()` loops of FunctionLiteral and
\* CallExpression: the items joined by ", "
print_list(items, i) ==
    IF i > Len(items) THEN <<>>
    ELSE print_string(items[i])
         \o (IF i # Len(items) THEN <<",", " ">> ELSE <<>>)
         \o print_list(items, i + 1)

\* `if let Some(x) = &opt { out.push_str(x.print_string()) }`
print_option(opt) == IF opt = NONE THEN <<>> ELSE print_string(opt)

print_string(n) ==
    CASE n.node = "Identifier" -> n.value
      [] n.node = "Integer" -> n.token.literal
      [] n.node = "Boolean" -> n.token.literal
      [] n.node = "Prefix" ->
            <<"(">> \o n.operator \o print_string(n.right) \o <<")">>
      [] n.node = "Infix" ->
            <<"(">> \o print_string(n.left) \o <<" ">> \o n.operator \o <<" ">>
            \o print_string(n.right) \o <<")">>
      [] n.node = "If" ->
            <<"i", "f">> \o print_string(n.condition) \o <<" ">>
            \o print_string(n.consequence)
            \o (IF n.alternative = NONE THEN <<>>
                ELSE <<"e", "l", "s", "e", " ">> \o print_string(n.alternative))
      [] n.node = "Function" ->
            n.token.literal \o <<"(">> \o print_list(n.parameters, 1) \o <<")", " ">>
            \o print_string(n.body)
      [] n.node = "Call" ->
            print_string(n.function) \o <<"(">> \o print_list(n.arguments, 1) \o <<")">>
      [] n.node = "Block" -> print_statements(n.statements, 1)
      [] n.node = "Let" ->
            n.token.literal \o <<" ">> \o print_string(n.name) \o <<" ", "=", " ">>
            \o print_option(n.value) \o <<";">>
      [] n.node = "Return" ->
            n.token.literal \o <<" ">> \o print_option(n.return_value) \o <<";">>
      [] n.node = "Expression" -> print_option(n.expression)

\* Program::print_string
Program_print_string(statements) == print_statements(statements, 1)

(***************************************************************************)
(* Evaluator (evaluator.rs, object.rs).  An evaluation returns [st, val]:  *)
(* st = "panic" when the arithmetic aborts the thread.  overflow_checks is *)
(* the build's setting: on, `+ - *` and unary `-` panic on overflow; off,  *)
(* they wrap.  Division by zero and I64_MIN / -1 panic in every build.     *)
(***************************************************************************)

Integer(value) == [type |-> "Integer", value |-> value]
BooleanObject(value) == [type |-> "Boolean", value |-> value]
NULL == [type |-> "Null"]
TRUE_OBJ == BooleanObject(TRUE)
FALSE_OBJ == BooleanObject(FALSE)

Value(obj) == [st |-> "ok", val |-> obj]
EvalPanic(message) == [st |-> "panic", val |-> message]

InRange(v) == I64_MIN <= v /\ v <= I64_MAX

\* two's-complement wrap of v into the integer type
Wrap(v) == ((v - I64_MIN) % (2^IntBits)) + I64_MIN

\* the result of an arithmetic operation whose exact value is v
Arith(v, overflow_checks, message) ==
    IF InRange(v) THEN Value(Integer(v))
    ELSE IF overflow_checks THEN EvalPanic(message)
    ELSE Value(Integer(Wrap(v)))

Abs(v) == IF v < 0 THEN -v ELSE v

\* a division that rounds the quotient down
FloorDiv(a, b) == IF b > 0 THEN a \div b ELSE (-a) \div (-b)

\* Rust's `/` on integers truncates toward zero
TruncDiv(a, b) ==
    IF (a < 0) = (b < 0) THEN Abs(a) \div Abs(b) ELSE -(Abs(a) \div Abs(b))

native_bool_to_boolean_object(input) == IF input THEN TRUE_OBJ ELSE FALSE_OBJ

\* a `!` that takes Null for a true value
eval_bang_null_true(right) ==
    CASE right.type = "Boolean" /\ right.value -> FALSE_OBJ
      [] right.type = "Boolean" /\ ~right.value -> TRUE_OBJ
      [] OTHER -> FALSE_OBJ

eval_bang_operator_expression(right) ==
    CASE right.type = "Boolean" /\ right.value -> FALSE_OBJ
      [] right.type = "Boolean" /\ ~right.value -> TRUE_OBJ
      [] right.type = "Null" -> TRUE_OBJ
      [] OTHER -> FALSE_OBJ

eval_minus_prefix_operator_expression(right, overflow_checks) ==
    IF right.type = "Integer"
    THEN Arith(-right.value, overflow_checks, "attempt to negate with overflow")
    ELSE Value(NULL)

eval_prefix_expression(operator, right, overflow_checks) ==
    CASE operator = <<"!">> -> Value(eval_bang_operator_expression(right))
      [] operator = <<"-">> ->
            eval_minus_prefix_operator_expression(right, overflow_checks)
      [] OTHER -> Value(NULL)

eval_integer_infix_expression(operator, left, right, overflow_checks) ==
    CASE operator = <<"+">> ->
            Arith(left + right, overflow_checks, "attempt to add with overflow")
      [] operator = <<"-">> ->
            Arith(left - right, overflow_checks, "attempt to subtract with overflow")
      [] operator = <<"*">> ->
            Arith(left * right, overflow_checks, "attempt to multiply with overflow")
      [] operator = <<"/">> ->
            IF right = 0 THEN EvalPanic("attempt to divide by zero")
            ELSE IF left = I64_MIN /\ right = -1
            THEN EvalPanic("attempt to divide with overflow")
            ELSE Value(Integer(TruncDiv(left, right)))
      [] OTHER -> Value(NULL)

\* an infix evaluation that answers false for operands that are not Integers
eval_infix_mismatch_false(operator, left, right, overflow_checks) ==
    IF left.type = "Integer" /\ right.type = "Integer"
    THEN eval_integer_infix_expression(operator, left.value, right.value, overflow_checks)
    ELSE Value(FALSE_OBJ)

eval_infix_expression(operator, left, right, overflow_checks) ==
    IF left.type = "Integer" /\ right.type = "Integer"
    THEN eval_integer_infix_expression(operator, left.value, right.value, overflow_checks)
    ELSE Value(NULL)

RECURSIVE eval_expression(_, _)
eval_expression(expression, overflow_checks) ==
    IF expression = NONE THEN Value(NULL)
    ELSE CASE expression.node = "Integer" -> Value(Integer(expression.value))
           [] expression.node = "Boolean" ->
                 Value(native_bool_to_boolean_object(expression.value))
           [] expression.node = "Prefix" ->
                 LET right == eval_expression(expression.right, overflow_checks)
                 IN  IF right.st # "ok" THEN right
                     ELSE eval_prefix_expression(expression.operator, right.val,
                                                 overflow_checks)
           [] expression.node = "Infix" ->
                 LET left == eval_expression(expression.left, overflow_checks)
                     right == eval_expression(expression.right, overflow_checks)
                 IN  IF left.st # "ok" THEN left
                     ELSE IF right.st # "ok" THEN right
                     ELSE eval_infix_expression(expression.operator, left.val,
                                                right.val, overflow_checks)
           [] OTHER -> Value(NULL)

\* an eval_statement that wraps the value of a return statement
eval_statement_wrapping(stmt, overflow_checks) ==
    IF stmt.node = "Expression"
    THEN eval_expression(stmt.expression, overflow_checks)
    ELSE IF stmt.node = "Return"
    THEN Value([type |-> "ReturnValue",
                value |-> eval_expression(stmt.return_value, overflow_checks).val])
    ELSE Value(NULL)

eval_statement(stmt, overflow_checks) ==
    IF stmt.node = "Expression"
    THEN eval_expression(stmt.expression, overflow_checks)
    ELSE Value(NULL)

\* the `for stmt in program.statements` loop of eval_program, from index i
RECURSIVE eval_program_from(_, _, _, _)
eval_program_from(statements, i, restult, overflow_checks) ==
    IF i > Len(statements) THEN Value(restult)
    ELSE LET r == eval_statement(statements[i], overflow_checks)
         IN  IF r.st # "ok" THEN r
             ELSE eval_program_from(statements, i + 1, r.val, overflow_checks)

eval_program(statements, overflow_checks) ==
    eval_program_from(statements, 1, NULL, overflow_checks)

(***************************************************************************)
(* Source texts                                                            *)
(***************************************************************************)

\* all sequences over S of length 0..n
SeqsUpTo(S, n) == UNION {[1..k -> S] : k \in 0..n}

\* the words of ws separated by single spaces
RECURSIVE Join(_)
Join(ws) ==
    IF Len(ws) = 0 THEN <<>>
    ELSE IF Len(ws) = 1 THEN ws[1]
    ELSE ws[1] \o <<" ">> \o Join(Tail(ws))

\* the words the general specification builds its source texts from
Words ==
    {<<"@">>, <<"5">>, <<"0">>, <<"3","0","0">>, <<"x">>, <<"a","d","d">>,
     <<"l","e","t">>, <<"i","f">>, <<"f","n">>, <<"t","r","u","e">>,
     <<"r","e","t","u","r","n">>, <<"(">>, <<")">>, <<"{">>, <<"}">>,
     <<",">>, <<";">>, <<"=">>, <<"=","=">>, <<"!","=">>, <<"!">>,
     <<"+">>, <<"-">>, <<"*">>, <<"/">>, <<"<">>}

\* the longest source text of the general specification, in words
MaxWords == 2

\* source texts named in the code's tests and in the design's examples
Examples ==
    {<<"i","f"," ","(",")">>,
     <<"f","n","(","x">>,
     <<"a","d","d","(","1">>,
     <<"a","d","d","(","1",","," ",")">>,
     <<"3","0","0"," ","+"," ","1">>,
     <<"i","f"," ","(","3","0","0",")"," ","{","}">>,
     <<"5"," ","/"," ","0">>,
     <<"1","0","0"," ","+"," ","1","0","0">>,
     <<"5"," ","=","="," ","5">>,
     <<"5"," ","!","="," ","5">>,
     <<"5"," ",">"," ","4"," ","=","="," ","3"," ","<"," ","4">>,
     <<"3"," ","+"," ","4",";"," ","-","5"," ","*"," ","5">>,
     <<"i","f"," ","(","x",")"," ","{"," ","@"," ","}">>,
     <<"l","e","t"," ","x"," ","5",";">>,
     <<"-","5"," ","-"," ","1","2","3">>}

Sources == {Join(ws) : ws \in SeqsUpTo(Words, MaxWords)} \cup Examples

(***************************************************************************)
(* The state machine.  A run drives one of the two public entry points on  *)
(* a source text: Lexer::next_token called directly (pc = "lexing", as in  *)
(* the tests of lexer.rs), or Parser::parse_program followed by            *)
(* Evaluator::eval_program (as in test_eval of evaluator.rs).              *)
(***************************************************************************)

VARIABLES
    lexer,       \* the Lexer: alone when lexing, else the field Parser.lexer
    tokens,      \* the tokens Lexer::next_token has returned to a direct caller
    cur_token,   \* Parser.cur_token
    peek_token,  \* Parser.peek_token
    errors,      \* Parser.errors
    program,     \* Program.statements, as far as parse_program has pushed
    result,      \* the Object eval_program returned
    returned,    \* what the parser method called last on its own returned
    cur_tokens,  \* the successive values of Parser.cur_token in such calls
    stdin,       \* the lines standard input still holds
    stdout,      \* what start has written since its last prompt
    pc           \* where the run is

vars ==
    <<lexer, tokens, cur_token, peek_token, errors, program, result, returned,
      cur_tokens, stdin, stdout, pc>>

\* the Parser value held in the variables
parser ==
    [lexer |-> lexer, cur_token |-> cur_token, peek_token |-> peek_token,
     errors |-> errors]

\* how many times a direct caller goes on calling next_token past the
\* length of the input
MaxExtraCalls == 2

\* Lexer::new(input), before any token is asked for
InitLexing(input) ==
    /\ pc = "lexing"
    /\ lexer = Lexer_new(input)
    /\ cur_token = DefaultToken
    /\ peek_token = DefaultToken

\* the parser p in the variables
InitParser(p) ==
    /\ pc = "parsing"
    /\ lexer = p.lexer
    /\ cur_token = p.cur_token
    /\ peek_token = p.peek_token

\* Parser::new(Lexer::new(input))
InitParsing(input) == InitParser(Parser_new(Lexer_new(input)))

InitOn(inputs) ==
    /\ \E input \in inputs : InitLexing(input) \/ InitParsing(input)
    /\ tokens = <<>>
    /\ errors = <<>>
    /\ program = <<>>
    /\ result = NULL
    /\ returned = NONE
    /\ cur_tokens = <<>>
    /\ stdin = <<>>
    /\ stdout = <<>>

Init == InitOn(Sources)

\* a direct call of Lexer::next_token, which returns r
LexerReturns(r) ==
    /\ lexer' = r.lx
    /\ tokens' = Append(tokens, r.token)

LexerNextToken ==
    /\ pc = "lexing"
    /\ Len(tokens) < Len(lexer.input) + MaxExtraCalls
    /\ LexerReturns(Lexer_next_token(lexer))
    /\ UNCHANGED <<cur_token, peek_token, errors, program, result, pc>>
    /\ UNCHANGED <<returned, cur_tokens, stdin, stdout>>

\* the outcome r of one iteration of the loop of parse_program
IterationEnds(r) ==
    /\ lexer' = r.p.lexer
    /\ cur_token' = r.p.cur_token
    /\ peek_token' = r.p.peek_token
    /\ errors' = r.p.errors
    /\ program' = IF r.st = "ok" THEN r.val ELSE program
    /\ pc' = CASE r.st = "panic" -> "panicked"
               [] r.st = "diverge" -> "diverged"
               [] SameWindow(r.p, parser) -> "diverged"
               [] OTHER -> "parsing"

\* one iteration of the `while !self.cur_token_is(TokenKind::EOF)` loop of
\* parse_program
ParseStatement ==
    /\ pc = "parsing"
    /\ ~cur_token_is(parser, "EOF")
    /\ IterationEnds(loop_iteration(parser, program))
    /\ UNCHANGED <<tokens, result, returned, cur_tokens, stdin, stdout>>

\* parse_program leaves its loop and returns Some(program)
ParseProgramReturn ==
    /\ pc = "parsing"
    /\ cur_token_is(parser, "EOF")
    /\ pc' = "parsed"
    /\ UNCHANGED <<lexer, tokens, cur_token, peek_token, errors, program, result>>
    /\ UNCHANGED <<returned, cur_tokens, stdin, stdout>>

\* Evaluator::eval_program returns, or panics, with r
EvalEnds(r) ==
    /\ result' = IF r.st = "ok" THEN r.val ELSE NULL
    /\ pc' = IF r.st = "ok" THEN "evaluated" ELSE "eval_panicked"

\* Evaluator::eval_program on the program returned
EvalProgram ==
    /\ pc = "parsed"
    /\ \E overflow_checks \in BOOLEAN :
          EvalEnds(eval_program(program, overflow_checks))
    /\ UNCHANGED <<lexer, tokens, cur_token, peek_token, errors, program>>
    /\ UNCHANGED <<returned, cur_tokens, stdin, stdout>>

Next ==
    \/ LexerNextToken
    \/ ParseStatement
    \/ ParseProgramReturn
    \/ EvalProgram

Spec == Init /\ [][Next]_vars

(***************************************************************************)
(* Properties                                                              *)
(***************************************************************************)

\* the source text of the run
Input == lexer.input

\* the last element of a non-empty sequence
Last(seq) == seq[Len(seq)]

\* C1: parse_program returns on every source text: its statement loop never
\* enters an iteration that is repeated for ever, whatever characters the
\* text contains.
C1_ParseProgramReturns == pc # "diverged"

\* the characters skip_whitespace passes over before the next token
SkippedWhitespace(lx) == skip_whitespace(lx).position - lx.position

\* C2: while the cursor has not exhausted the input, one call of
\* Lexer::next_token returns exactly one token and moves the cursor strictly
\* forward, by the skipped whitespace plus the token's literal for every
\* token that is not EOF, Illegal included.
C2_NextTokenAdvances ==
    [][(pc = "lexing" /\ lexer.position < Len(Input))
        => /\ Len(tokens') = Len(tokens) + 1
           /\ lexer'.position > lexer.position
           /\ Last(tokens').kind # "EOF"
                => lexer'.position = lexer.position + SkippedWhitespace(lexer)
                                     + Len(Last(tokens').literal)]_vars

\* C3: parse_program never aborts: a malformed construct only appends to the
\* error list.
C3_ParserNeverPanics == pc # "panicked"

\* the parser's last error is the integer conversion error
LastErrorIsConversion ==
    /\ errors # <<>>
    /\ Last(errors).msg = "could not parse as integer"

\* C4: after an integer literal failed its conversion and the error was
\* recorded, parse_program still returns normally, whatever token follows
\* the literal.
C4_ReturnsAfterConversionError == ~(pc = "panicked" /\ LastErrorIsConversion)

\* C5: for a program parsed without errors, eval_program returns a value and
\* never aborts.
C5_EvalNeverAborts == (errors = <<>>) => pc # "eval_panicked"

\* the integer and boolean literals of C7, and its two operators
EqualityOperands == {<<"5">>, <<"0">>, <<"t","r","u","e">>, <<"f","a","l","s","e">>}
EqualityOperators == {<<"=","=">>, <<"!","=">>}

\* the source text is `L == R` or `L != R`
IsEqualityText(text) ==
    \E l \in EqualityOperands, r \in EqualityOperands, op \in EqualityOperators :
        text = Join(<<l, op, r>>)

\* the operator of `L op R`: the word between the two spaces
EqualityOperatorOf(text) ==
    CHOOSE op \in EqualityOperators :
        \E l \in EqualityOperands, r \in EqualityOperands : text = Join(<<l, op, r>>)

\* C7: `L == R` and `L != R` parse without error to one expression statement,
\* an Infix node with that operator, and `5 > 4 == 3 < 4` prints as
\* `((5 > 4) == (3 < 4))`.
C7_EqualityParses ==
    /\ (pc = "parsed" /\ IsEqualityText(Input))
        => /\ errors = <<>>
           /\ Len(program) = 1
           /\ program[1].node = "Expression"
           /\ program[1].expression.node = "Infix"
           /\ program[1].expression.operator = EqualityOperatorOf(Input)
    /\ (pc = "parsed"
        /\ Input = <<"5"," ",">"," ","4"," ","=","="," ","3"," ","<"," ","4">>)
        => Program_print_string(program) =
              <<"(","(","5"," ",">"," ","4",")"," ","=","="," ",
                "(","3"," ","<"," ","4",")",")">>

(***************************************************************************)
(* Operator expressions (C8)                                               *)
(***************************************************************************)

\* the words of an operator expression
ExprAtoms == {<<"a">>, <<"7">>}
ExprPrefixOps == {<<"!">>, <<"-">>}
ExprBinaryOps == {<<"+">>, <<"-">>, <<"*">>, <<"/">>, <<"<">>, <<">">>}

\* the longest operator expression, in words
MaxExprTokens == 5

RECURSIVE ExprsOfSize(_)
\* the well-formed operator expressions of exactly n words
ExprsOfSize(n) ==
    IF n = 1 THEN {<<a>> : a \in ExprAtoms}
    ELSE {<<op>> \o e : op \in ExprPrefixOps, e \in ExprsOfSize(n - 1)}
         \cup (IF n >= 3 THEN {<< <<"(">> >> \o e \o << <<")">> >> : e \in ExprsOfSize(n - 2)}
               ELSE {})
         \cup UNION {{l \o <<op>> \o r :
                         l \in ExprsOfSize(i), op \in ExprBinaryOps,
                         r \in ExprsOfSize(n - 1 - i)} : i \in 1..(n - 2)}

ExprWords == UNION {ExprsOfSize(n) : n \in 1..MaxExprTokens}

ExprSources == {Join(ws) : ws \in ExprWords}

InitExpr == InitOn(ExprSources)

SpecExpr == InitExpr /\ [][Next]_vars

RECURSIVE SplitWords(_, _, _)
\* the words of a text whose words are separated by single spaces
SplitWords(text, i, word) ==
    IF i > Len(text) THEN <<word>>
    ELSE IF text[i] = " " THEN <<word>> \o SplitWords(text, i + 1, <<>>)
    ELSE SplitWords(text, i + 1, Append(word, text[i]))

\* the number of parentheses open before word i
RECURSIVE Depth(_, _)
Depth(ws, i) ==
    IF i <= 1 THEN 0
    ELSE Depth(ws, i - 1) + (IF ws[i - 1] = <<"(">> THEN 1
                             ELSE IF ws[i - 1] = <<")">> THEN -1 ELSE 0)

\* the binding strength the reference gives a binary operator
RefLevel(w) ==
    CASE w \in {<<"<">>, <<">">>} -> 1
      [] w \in {<<"+">>, <<"-">>} -> 2
      [] w \in {<<"*">>, <<"/">>} -> 3

\* word i is a binary operator outside every parenthesis: an operator word
\* that follows an operand
IsTopBinary(ws, i) ==
    /\ i > 1
    /\ ws[i] \in ExprBinaryOps
    /\ Depth(ws, i) = 0
    /\ ws[i - 1] \notin (ExprBinaryOps \cup ExprPrefixOps \cup {<<"(">>})

TopBinaries(ws) == {i \in 1..Len(ws) : IsTopBinary(ws, i)}

\* the operator applied last: the rightmost of the weakest operators outside
\* every parenthesis
SplitAt(ws) ==
    CHOOSE i \in TopBinaries(ws) :
        \A j \in TopBinaries(ws) :
            \/ RefLevel(ws[i]) < RefLevel(ws[j])
            \/ RefLevel(ws[i]) = RefLevel(ws[j]) /\ j <= i

RECURSIVE Ref(_)
\* the reference full parenthesisation of a well-formed operator expression
Ref(ws) ==
    IF TopBinaries(ws) # {}
    THEN <<"(">> \o Ref(SubSeq(ws, 1, SplitAt(ws) - 1)) \o <<" ">>
         \o ws[SplitAt(ws)] \o <<" ">>
         \o Ref(SubSeq(ws, SplitAt(ws) + 1, Len(ws))) \o <<")">>
    ELSE IF ws[1] \in ExprPrefixOps
    THEN <<"(">> \o ws[1] \o Ref(Tail(ws)) \o <<")">>
    ELSE IF ws[1] = <<"(">>
    THEN Ref(SubSeq(ws, 2, Len(ws) - 1))
    ELSE ws[1]

\* C8: an operator expression parses without error to one expression
\* statement whose print is the reference full parenthesisation: `* /` over
\* `+ -` over `< >`, prefix operators over every binary operator, equal
\* precedence to the left, a parenthesised sub-expression as one operand.
C8_PrecedenceLaw ==
    pc = "parsed"
        => /\ errors = <<>>
           /\ Len(program) = 1
           /\ Program_print_string(program) = Ref(SplitWords(Input, 1, <<>>))

\* a weaker operator followed by a stronger one, parsed
C8_Witness ==
    /\ pc = "parsed"
    /\ Input = Join(<<<<"a">>, <<"+">>, <<"7">>, <<"*">>, <<"a">>>>)
    /\ Program_print_string(program) =
          <<"(","a"," ","+"," ","(","7"," ","*"," ","a",")",")">>

(***************************************************************************)
(* Call expressions (C9)                                                   *)
(***************************************************************************)

\* the callee, and the words before and after a call
Callee == <<"a","d","d">>
CallPrefixes ==
    {<<>>, << <<"-">> >>, << <<"!">> >>, << <<"a">>, <<"+">> >>, << <<"a">>, <<"*">> >>}
CallSuffixes == {<<>>, << <<"+">>, <<"d">> >>, << <<"*">>, <<"d">> >>}

\* the argument expressions
CallArgs ==
    {<< <<"b">> >>, << <<"b">>, <<"*">>, <<"c">> >>, << <<"-">>, <<"1">> >>,
     << <<"1">>, <<"+">>, <<"c">> >>, << Callee, <<"(">>, <<"b">>, <<")">> >>}

\* the longest argument list
MaxArgs == 2

RECURSIVE ArgWords(_)
\* the words of an argument list: the arguments separated by commas
ArgWords(args) ==
    IF Len(args) = 0 THEN <<>>
    ELSE IF Len(args) = 1 THEN args[1]
    ELSE args[1] \o << <<",">> >> \o ArgWords(Tail(args))

\* the words of `add(e1, ..., en)`
CallWords(args) == <<Callee, <<"(">> >> \o ArgWords(args) \o << <<")">> >>

CallText(pre, args, post) == Join(pre \o CallWords(args) \o post)

CallSources ==
    {CallText(pre, args, post) :
        pre \in CallPrefixes, args \in SeqsUpTo(CallArgs, MaxArgs), post \in CallSuffixes}

InitCall == InitOn(CallSources)

SpecCall == InitCall /\ [][Next]_vars

\* the statements parse_program yields for the text of ws
StatementsOf(ws) == parse_program(Parser_new(Lexer_new(Join(ws)))).val

\* the tree of the expression ws, parsed alone at Lowest precedence
ExpressionOf(ws) == StatementsOf(ws)[1].expression

\* the Call node the claim describes for `add(e1, ..., en)`
CallTreeOf(args) ==
    CallExpression(Token("LParen", <<"(">>), ExpressionOf(<<Callee>>),
                   [i \in 1..Len(args) |-> ExpressionOf(args[i])])

RECURSIVE PutCall(_, _)
\* the operator tree n with the Call node in the place of the callee
PutCall(n, call) ==
    CASE n.node = "Identifier" -> IF n.value = Callee THEN call ELSE n
      [] n.node = "Prefix" -> [n EXCEPT !.right = PutCall(n.right, call)]
      [] n.node = "Infix" -> [n EXCEPT !.left = PutCall(n.left, call),
                                       !.right = PutCall(n.right, call)]
      [] n.node = "Expression" ->
            [n EXCEPT !.expression = PutCall(n.expression, call)]
      [] OTHER -> n

\* the program the claim describes for a call among operators: the operators
\* applied to the callee alone, with the Call node as that operand
CallProgramOf(pre, args, post) ==
    << PutCall(StatementsOf(pre \o <<Callee>> \o post)[1], CallTreeOf(args)) >>

\* C9: `add(e1, ..., en)` parses without error to a Call node whose callee is
\* the tree of `add` and whose arguments are the trees of e1..en parsed alone,
\* in source order; among prefix and binary operators the call is one
\* operand, as if the callee stood there alone.
C9_CallExpression ==
    pc = "parsed"
        => /\ errors = <<>>
           /\ \A pre \in CallPrefixes, args \in SeqsUpTo(CallArgs, MaxArgs),
                 post \in CallSuffixes :
                    Input = CallText(pre, args, post)
                        => program = CallProgramOf(pre, args, post)

\* `a + add(b * c, b) + d`, parsed
C9_Witness ==
    /\ pc = "parsed"
    /\ Input = CallText(<< <<"a">>, <<"+">> >>,
                        << << <<"b">>, <<"*">>, <<"c">> >>, << <<"b">> >> >>,
                        << <<"+">>, <<"d">> >>)
    /\ Program_print_string(program) =
          <<"(","(","a"," ","+"," ","a","d","d","(","(","b"," ","*"," ","c",")",
            ","," ","b",")",")"," ","+"," ","d",")">>

(***************************************************************************)
(* Printing and parsing again (C6)                                         *)
(***************************************************************************)

\* the statements of a program text, each written with or without its `;`
RTStatements ==
    {<< <<"5">> >>,
     << <<"-">>, <<"x">> >>,
     << <<"x">>, <<"+">>, <<"5">> >>,
     << <<"a","d","d">>, <<"(">>, <<"x">>, <<",">>, <<"5">>, <<")">> >>,
     << <<"l","e","t">>, <<"x">>, <<"=">>, <<"5">> >>,
     << <<"r","e","t","u","r","n">>, <<"x">> >>,
     << <<"i","f">>, <<"(">>, <<"x">>, <<")">>, <<"{">>, <<"y">>, <<"}">> >>,
     << <<"i","f">>, <<"(">>, <<"x">>, <<")">>, <<"{">>, <<"y">>, <<"}">>,
        <<"e","l","s","e">>, <<"{">>, <<"5">>, <<"}">> >>,
     << <<"f","n">>, <<"(">>, <<"x">>, <<")">>, <<"{">>, <<"x">>, <<"}">> >>}

RTTerminated == RTStatements \cup {st \o << <<";">> >> : st \in RTStatements}

\* the most statements of a program text
MaxStatements == 2

RECURSIVE Concat(_)
Concat(seqs) == IF Len(seqs) = 0 THEN <<>> ELSE seqs[1] \o Concat(Tail(seqs))

RTSources ==
    {Join(Concat(sts)) : sts \in SeqsUpTo(RTTerminated, MaxStatements) \ {<<>>}}

InitRT == InitOn(RTSources)

SpecRT == InitRT /\ [][Next]_vars

\* parse_program on a text
Reparse(text) == parse_program(Parser_new(Lexer_new(text)))

\* the print of r's program is text, and r has no error
PrintsAs(r, text) ==
    /\ r.st = "ok"
    /\ r.p.errors = <<>>
    /\ Program_print_string(r.val) = text

\* parsing the print of the program yields no error and the same print
RoundTrips(statements) ==
    PrintsAs(Reparse(Program_print_string(statements)),
             Program_print_string(statements))

RECURSIVE HasBlock(_)
\* an if-expression or a function literal occurs in the tree n
HasBlock(n) ==
    CASE n = NONE -> FALSE
      [] n.node \in {"If", "Function"} -> TRUE
      [] n.node = "Prefix" -> HasBlock(n.right)
      [] n.node = "Infix" -> HasBlock(n.left) \/ HasBlock(n.right)
      [] n.node = "Call" ->
            \/ HasBlock(n.function)
            \/ \E i \in 1..Len(n.arguments) : HasBlock(n.arguments[i])
      [] n.node = "Let" -> HasBlock(n.value)
      [] n.node = "Return" -> HasBlock(n.return_value)
      [] n.node = "Expression" -> HasBlock(n.expression)
      [] OTHER -> FALSE

\* no if-expression and no function literal occurs in the program, and every
\* statement before the last is a let or a return statement
Plain(statements) ==
    /\ \A i \in 1..Len(statements) : ~HasBlock(statements[i])
    /\ \A i \in 1..(Len(statements) - 1) : statements[i].node \in {"Let", "Return"}

LetMalformed ==
    {<< <<"l","e","t">>, <<"x">>, <<"5">> >>,
     << <<"l","e","t">>, <<"5">> >>,
     << <<"l","e","t">>, <<"=">>, <<"5">> >>,
     << <<"l","e","t">>, <<"x">> >>,
     << <<"l","e","t">> >>,
     << <<"l","e","t">>, <<"x">>, <<"x">>, <<"=">>, <<"5">> >>,
     << <<"l","e","t">>, <<"x">>, <<"(">> >>,
     << <<"l","e","t">>, <<"x">>, <<"5">>, <<"(">> >>,
     << <<"l","e","t">>, <<"@">>, <<"=">>, <<"5">> >>}

\* the well-formed statements placed after the malformed one
LetFollowers ==
    {<< <<"y">>, <<";">> >>,
     << <<"l","e","t">>, <<"y">>, <<"=">>, <<"5">>, <<";">> >>,
     << <<"r","e","t","u","r","n">>, <<"y">>, <<";">> >>,
     << <<"x">>, <<"+">>, <<"y">> >>,
     << <<"a","d","d">>, <<"(">>, <<"y">>, <<")">>, <<";">> >>}

\* the most statements after the malformed one
MaxFollowers == 2

LetText(bad, sts) == Join(bad \o << <<";">> >> \o Concat(sts))

LetSources ==
    {LetText(bad, sts) :
        bad \in LetMalformed, sts \in SeqsUpTo(LetFollowers, MaxFollowers) \ {<<>>}}

InitLet == InitOn(LetSources)

SpecLet == InitLet /\ [][Next]_vars

RECURSIVE AloneTrees(_)
\* the trees of the statements sts, each parsed alone
AloneTrees(sts) ==
    IF Len(sts) = 0 THEN <<>>
    ELSE StatementsOf(sts[1]) \o AloneTrees(Tail(sts))

\* the program ends with trees, and holds no Let statement before them
EndsWith(statements, trees) ==
    /\ Len(statements) >= Len(trees)
    /\ SubSeq(statements, Len(statements) - Len(trees) + 1, Len(statements)) = trees
    /\ \A i \in 1..(Len(statements) - Len(trees)) : statements[i].node # "Let"

\* C10: on a malformed let statement followed by `;` and well-formed
\* statements, parse_program reaches the end of the input and returns with a
\* non-empty error list and a program that holds no Let statement for the
\* malformed one and ends with the trees the following statements have when
\* parsed alone.
C10_LetRecovery ==
    /\ pc \notin {"panicked", "diverged"}
    /\ pc = "parsed"
        => /\ errors # <<>>
           /\ \A bad \in LetMalformed,
                 sts \in SeqsUpTo(LetFollowers, MaxFollowers) \ {<<>>} :
                    Input = LetText(bad, sts)
                        => EndsWith(program, AloneTrees(sts))

(***************************************************************************)
(* Return without a value (C11)                                            *)
(***************************************************************************)

\* `return;` and `return` at the end of the input
BareReturns ==
    {Join(<< <<"r","e","t","u","r","n">>, <<";">> >>), <<"r","e","t","u","r","n">>}

\* C11: `return;`, and `return` at the end of the input, parse without error
\* to exactly one Return statement whose return value is absent.
C11_BareReturn ==
    (pc = "parsed" /\ Input \in BareReturns)
        => /\ errors = <<>>
           /\ Len(program) = 1
           /\ program[1].node = "Return"
           /\ program[1].return_value = NONE

(***************************************************************************)
(* Function literals and blocks (C12, C13)                                 *)
(***************************************************************************)

\* the words written in a parameter position
ParamWords == {<<"x">>, <<"y">>, <<"1">>}

\* the longest parameter list
MaxParams == 2

\* the statements written in a block
BlockBodies == {<<>>, << <<"y">> >>, << <<"y">>, <<";">>, <<"5">> >>}

\* a block with its closing brace, and the block left open
BlockForms == {<< <<"{">> >> \o body \o close :
                  body \in BlockBodies, close \in {<< <<"}">> >>, <<>>}}

\* `fn ( p1 , .. ) block`; the parameters are separated as arguments are
FunctionWords ==
    {<< <<"f","n">>, <<"(">> >> \o ArgWords([i \in 1..Len(ps) |-> <<ps[i]>>])
        \o << <<")">> >> \o block :
            ps \in SeqsUpTo(ParamWords, MaxParams), block \in BlockForms}

\* `if ( x ) block` and `if ( x ) { y } else block`
IfWords ==
    {<< <<"i","f">>, <<"(">>, <<"x">>, <<")">> >> \o block : block \in BlockForms}
    \cup {<< <<"i","f">>, <<"(">>, <<"x">>, <<")">>, <<"{">>, <<"y">>, <<"}">>,
             <<"e","l","s","e">> >> \o block : block \in BlockForms}

BlockSources == {Join(ws) : ws \in FunctionWords \cup IfWords}

InitBlock == InitOn(BlockSources)

SpecBlock == InitBlock /\ [][Next]_vars

RECURSIVE ParametersAreIdents(_)
\* every parameter of every function literal in the tree n holds a token of
\* kind Ident
ParametersAreIdents(n) ==
    CASE n = NONE -> TRUE
      [] n.node = "Function" ->
            /\ \A i \in 1..Len(n.parameters) : n.parameters[i].token.kind = "Ident"
            /\ ParametersAreIdents(n.body)
      [] n.node = "Block" ->
            \A i \in 1..Len(n.statements) : ParametersAreIdents(n.statements[i])
      [] n.node = "If" ->
            /\ ParametersAreIdents(n.condition)
            /\ ParametersAreIdents(n.consequence)
            /\ ParametersAreIdents(n.alternative)
      [] n.node = "Prefix" -> ParametersAreIdents(n.right)
      [] n.node = "Infix" -> ParametersAreIdents(n.left) /\ ParametersAreIdents(n.right)
      [] n.node = "Call" ->
            /\ ParametersAreIdents(n.function)
            /\ \A i \in 1..Len(n.arguments) : ParametersAreIdents(n.arguments[i])
      [] n.node = "Let" -> ParametersAreIdents(n.value)
      [] n.node = "Return" -> ParametersAreIdents(n.return_value)
      [] n.node = "Expression" -> ParametersAreIdents(n.expression)
      [] OTHER -> TRUE

\* C12: in a parse that ends with an empty error list every parameter of
\* every function literal was taken from a token of kind Ident: a token of
\* another kind in a parameter position, as in `fn(1, 2) {}`, records an error.
C12_ParametersAreIdents ==
    (pc = "parsed" /\ errors = <<>>)
        => \A i \in 1..Len(program) : ParametersAreIdents(program[i])

RECURSIVE Count(_, _)
\* how often the character c occurs in text
Count(text, c) ==
    IF text = <<>> THEN 0
    ELSE (IF Head(text) = c THEN 1 ELSE 0) + Count(Tail(text), c)

\* C13: in a parse that ends with an empty error list every block opened by
\* `{` was closed by a `}`, so the text holds as many `}` as `{`: a block
\* still open at the end of the input, as in `if (x) { y`, records an error.
C13_BlocksClosed ==
    (pc = "parsed" /\ errors = <<>>) => Count(Input, "{") = Count(Input, "}")

(***************************************************************************)
(* Integer arithmetic (C14)                                                *)
(***************************************************************************)

\* the words of an arithmetic expression
ArithAtoms == {<<"0">>, <<"3">>, <<"5","0">>}
ArithPrefixOps == {<<"-">>}
ArithBinaryOps == {<<"+">>, <<"-">>, <<"*">>, <<"/">>}

\* the longest arithmetic expression, in words
MaxArithTokens == 5

RECURSIVE ArithsOfSize(_)
\* the well-formed arithmetic expressions of exactly n words
ArithsOfSize(n) ==
    IF n = 1 THEN {<<a>> : a \in ArithAtoms}
    ELSE {<<op>> \o e : op \in ArithPrefixOps, e \in ArithsOfSize(n - 1)}
         \cup (IF n >= 3 THEN {<< <<"(">> >> \o e \o << <<")">> >> : e \in ArithsOfSize(n - 2)}
               ELSE {})
         \cup UNION {{l \o <<op>> \o r :
                         l \in ArithsOfSize(i), op \in ArithBinaryOps,
                         r \in ArithsOfSize(n - 1 - i)} : i \in 1..(n - 2)}

\* `(5 + 10 * 2 + 15 / 3) * 2 + -10`
ArithExample ==
    << <<"(">>, <<"5">>, <<"+">>, <<"1","0">>, <<"*">>, <<"2">>, <<"+">>, <<"1","5">>,
       <<"/">>, <<"3">>, <<")">>, <<"*">>, <<"2">>, <<"+">>, <<"-">>, <<"1","0">> >>

ArithSources ==
    {Join(ws) : ws \in UNION {ArithsOfSize(n) : n \in 1..MaxArithTokens} \cup {ArithExample}}

InitArith == InitOn(ArithSources)

SpecArith == InitArith /\ [][Next]_vars

RECURSIVE Decimal(_)
\* the number a run of digits writes
Decimal(word) ==
    IF word = <<>> THEN 0
    ELSE 10 * Decimal(SubSeq(word, 1, Len(word) - 1)) + DigitValue(word[Len(word)])

\* a value of ordinary arithmetic that fits the integer width; Undefined
\* otherwise, and after a division by zero
Undefined == [defined |-> FALSE]
Defined(v) ==
    IF -(2 ^ (IntBits - 1)) <= v /\ v <= 2 ^ (IntBits - 1) - 1
    THEN [defined |-> TRUE, v |-> v] ELSE Undefined

\* the quotient rounded towards zero
Quotient(a, b) ==
    IF (a >= 0) = (b >= 0)
    THEN (IF a >= 0 THEN a ELSE -a) \div (IF b >= 0 THEN b ELSE -b)
    ELSE -((IF a >= 0 THEN a ELSE -a) \div (IF b >= 0 THEN b ELSE -b))

\* the operator op on two values of ordinary arithmetic
RefApply(op, l, r) ==
    IF ~l.defined \/ ~r.defined THEN Undefined
    ELSE CASE op = <<"+">> -> Defined(l.v + r.v)
           [] op = <<"-">> -> Defined(l.v - r.v)
           [] op = <<"*">> -> Defined(l.v * r.v)
           [] op = <<"/">> -> IF r.v = 0 THEN Undefined ELSE Defined(Quotient(l.v, r.v))

RefNegate(r) == IF r.defined THEN Defined(-r.v) ELSE Undefined

RECURSIVE RefValue(_)
\* the value of a well-formed arithmetic expression under ordinary
\* arithmetic and the precedence of the reference parenthesisation
RefValue(ws) ==
    IF TopBinaries(ws) # {}
    THEN RefApply(ws[SplitAt(ws)], RefValue(SubSeq(ws, 1, SplitAt(ws) - 1)),
                  RefValue(SubSeq(ws, SplitAt(ws) + 1, Len(ws))))
    ELSE IF ws[1] = <<"-">> THEN RefNegate(RefValue(Tail(ws)))
    ELSE IF ws[1] = <<"(">> THEN RefValue(SubSeq(ws, 2, Len(ws) - 1))
    ELSE Defined(Decimal(ws[1]))

\* the reference value of the source text
InputValue == RefValue(SplitWords(Input, 1, <<>>))

\* C14: an arithmetic expression whose divisors are not zero and whose
\* intermediate results fit the integer width parses without error and
\* evaluates, in every build, to the Integer of its value under ordinary
\* arithmetic with truncating division.
C14_IntegerArithmetic ==
    (pc \in {"parsed", "evaluated", "eval_panicked"} /\ InputValue.defined)
        => /\ errors = <<>>
           /\ pc # "eval_panicked"
           /\ pc = "evaluated" => result = Integer(InputValue.v)

\* `-50 / 3` evaluated: the quotient is rounded towards zero
C14_Witness ==
    /\ pc = "evaluated"
    /\ RefValue(ArithExample) = Defined(50)
    /\ Input = Join(<< <<"-">>, <<"5","0">>, <<"/">>, <<"3">> >>)
    /\ InputValue.defined
    /\ result = Integer(-16)

(***************************************************************************)
(* Prefix `!` (C15)                                                        *)
(***************************************************************************)

\* the operands of `!`: Booleans, Integers (0 among them), and expressions
\* that evaluate to Null; the last one has no value, its evaluation aborts
BangOperands ==
    {<< <<"t","r","u","e">> >>, << <<"f","a","l","s","e">> >>, << <<"5">> >>,
     << <<"0">> >>, << <<"x">> >>,
     << <<"(">>, <<"-">>, <<"5">>, <<")">> >>,
     << <<"(">>, <<"-">>, <<"t","r","u","e">>, <<")">> >>,
     << <<"(">>, <<"5">>, <<"-">>, <<"5">>, <<")">> >>,
     << <<"(">>, <<"5">>, <<"<">>, <<"3">>, <<")">> >>,
     << <<"a","d","d">>, <<"(">>, <<"5">>, <<")">> >>,
     << <<"(">>, <<"5">>, <<"/">>, <<"0">>, <<")">> >>}

\* the most `!` written before an operand
MaxBangs == 3

\* k times `!`, then the operand e
BangText(k, e) == Join([i \in 1..k |-> <<"!">>] \o e)

BangSources == {BangText(k, e) : k \in 0..MaxBangs, e \in BangOperands}

InitBang == InitOn(BangSources)

SpecBang == InitBang /\ [][Next]_vars

\* eval_program on the program parsed from the words ws
EvalOf(ws) == eval_program(StatementsOf(ws), TRUE)

\* the object is Boolean(false) or Null
IsFalseOrNull(obj) == obj.type = "Null" \/ (obj.type = "Boolean" /\ ~obj.value)

\* the object k applications of `!` yield from obj, as the claim gives it
RefBang(k, obj) ==
    IF k = 0 THEN obj
    ELSE IF k % 2 = 1 THEN BooleanObject(IsFalseOrNull(obj))
    ELSE BooleanObject(~IsFalseOrNull(obj))

\* C15: `!` yields a Boolean for every operand value: false for
\* Boolean(true) and for every Integer, true for Boolean(false) and for
\* Null; `!!e` is false exactly when e evaluates to Boolean(false) or Null.
C15_BangOperator ==
    pc = "evaluated"
        => \A k \in 0..MaxBangs, e \in BangOperands :
              (Input = BangText(k, e) /\ EvalOf(e).st = "ok")
                  => result = RefBang(k, EvalOf(e).val)

\* `!!0` evaluated to true, and 0 alone to Integer(0)
C15_Witness ==
    /\ pc = "evaluated"
    /\ Input = BangText(2, << <<"0">> >>)
    /\ EvalOf(<< <<"0">> >>).val = Integer(0)
    /\ result = TRUE_OBJ

(***************************************************************************)
(* Operands of the wrong type (C16)                                        *)
(***************************************************************************)

\* operands that evaluate to an Integer, a Boolean or Null; the evaluation
\* of the last one aborts
TypedOperands ==
    {<< <<"5">> >>, << <<"0">> >>, << <<"t","r","u","e">> >>,
     << <<"f","a","l","s","e">> >>, << <<"x">> >>,
     << <<"(">>, <<"5">>, <<"<">>, <<"3">>, <<")">> >>,
     << <<"(">>, <<"-">>, <<"t","r","u","e">>, <<")">> >>,
     << <<"(">>, <<"5">>, <<"+">>, <<"5">>, <<")">> >>,
     << <<"a","d","d">>, <<"(">>, <<"5">>, <<")">> >>,
     << <<"(">>, <<"5">>, <<"/">>, <<"0">>, <<")">> >>}

\* an identifier, if-expressions, a function literal and calls
NullForms ==
    {<< <<"x">> >>,
     << <<"i","f">>, <<"(">>, <<"t","r","u","e">>, <<")">>, <<"{">>, <<"5">>, <<"}">> >>,
     << <<"i","f">>, <<"(">>, <<"t","r","u","e">>, <<")">>, <<"{">>, <<"5">>, <<"}">>,
        <<"e","l","s","e">>, <<"{">>, <<"3">>, <<"}">> >>,
     << <<"f","n">>, <<"(">>, <<"x">>, <<")">>, <<"{">>, <<"x">>, <<"}">> >>,
     << <<"a","d","d">>, <<"(">>, <<"5">>, <<")">> >>,
     << <<"a","d","d">>, <<"(">>, <<"5">>, <<"/">>, <<"0">>, <<")">> >>}

MinusText(e) == Join(<< <<"-">> >> \o e)
InfixText(l, op, r) == Join(l \o <<op>> \o r)

TypedSources ==
    {MinusText(e) : e \in TypedOperands}
    \cup {InfixText(l, op, r) : l \in TypedOperands, op \in ExprBinaryOps,
                                r \in TypedOperands}
    \cup {Join(ws) : ws \in NullForms}

InitTyped == InitOn(TypedSources)

SpecTyped == InitTyped /\ [][Next]_vars

\* the words ws evaluate, to an object that is not an Integer
IsNotInteger(ws) == EvalOf(ws).st = "ok" /\ EvalOf(ws).val.type # "Integer"

\* the words ws evaluate to an Integer
IsInteger(ws) == EvalOf(ws).st = "ok" /\ EvalOf(ws).val.type = "Integer"

\* the source text is one to which the claim gives the value Null
YieldsNull ==
    \/ \E e \in TypedOperands : Input = MinusText(e) /\ IsNotInteger(e)
    \/ \E l \in TypedOperands, op \in ExprBinaryOps, r \in TypedOperands :
          /\ Input = InfixText(l, op, r)
          /\ \/ IsNotInteger(l) /\ EvalOf(r).st = "ok"
             \/ IsNotInteger(r) /\ EvalOf(l).st = "ok"
             \/ IsInteger(l) /\ IsInteger(r) /\ op \in {<<"<">>, <<">">>}
    \/ \E ws \in NullForms : Input = Join(ws)

\* C16: prefix `-` on a Boolean or Null operand, an infix operator with an
\* operand that is not an Integer, `<` and `>` on two Integers, identifiers,
\* if-expressions, function literals and calls all evaluate to Null, and the
\* evaluation never aborts.
C16_MismatchIsNull ==
    (pc \in {"evaluated", "eval_panicked"} /\ YieldsNull)
        => (pc = "evaluated" /\ result = NULL)

\* `true + 5` evaluated to Null
C16_Witness ==
    /\ pc = "evaluated"
    /\ Input = InfixText(<< <<"t","r","u","e">> >>, <<"+">>, << <<"5">> >>)
    /\ YieldsNull
    /\ result = NULL

(***************************************************************************)
(* Programs of several statements (C17)                                    *)
(***************************************************************************)

\* the statements of a program, each with its `;`
SeqStatements ==
    {<< <<"5">>, <<";">> >>,
     << <<"t","r","u","e">>, <<";">> >>,
     << <<"-">>, <<"5">>, <<";">> >>,
     << <<"x">>, <<";">> >>,
     << <<"5">>, <<"/">>, <<"0">>, <<";">> >>,
     << <<"5","0">>, <<"+">>, <<"5","0">>, <<"+">>, <<"5","0">>, <<";">> >>,
     << <<"l","e","t">>, <<"x">>, <<"=">>, <<"5">>, <<";">> >>,
     << <<"r","e","t","u","r","n">>, <<"5">>, <<";">> >>}

\* the most statements of such a program
MaxSeqStatements == 2

SeqSources == {Join(Concat(sts)) : sts \in SeqsUpTo(SeqStatements, MaxSeqStatements)}

InitSeq == InitOn(SeqSources)

SpecSeq == InitSeq /\ [][Next]_vars

\* two objects are the same object
SameObject(a, b) == a.type = b.type /\ (a.type = "Null" \/ a.value = b.value)

\* the run ended as the evaluation r does
EndedAs(r) ==
    \/ pc = "eval_panicked" /\ r.st = "panic"
    \/ pc = "evaluated" /\ r.st = "ok" /\ SameObject(result, r.val)

\* C17: eval_program returns what the final statement of the program yields
\* when evaluated alone, whatever the earlier statements are; the empty
\* program yields Null, and so does a program that ends with a Let or a
\* Return statement.
C17_LastStatementWins ==
    pc \in {"evaluated", "eval_panicked"}
        => /\ program = <<>> => EndedAs(Value(NULL))
           /\ program # <<>>
                => \E overflow_checks \in BOOLEAN :
                      EndedAs(eval_program(<<Last(program)>>, overflow_checks))
           /\ (program # <<>> /\ Last(program).node \in {"Let", "Return"})
                => EndedAs(Value(NULL))

(***************************************************************************)
(* The lexer at the end of the input (C18)                                 *)
(***************************************************************************)

\* C18 (as stated): once the cursor has exhausted the input, a call of
\* Lexer::next_token returns the EOF token with the empty literal and leaves
\* position, read_position and ch as they are, however often it is repeated.
C18_EofCallIsIdle ==
    [][(pc = "lexing" /\ lexer.position >= Len(Input))
        => /\ Last(tokens') = Token("EOF", <<>>)
           /\ lexer' = lexer]_vars

\* C18 (amended): once the cursor has exhausted the input, a call of
\* Lexer::next_token returns the EOF token with the empty literal and leaves
\* ch and the input as they are, while position takes the value of
\* read_position and read_position grows by one.
C18_EofCallRepeats ==
    [][(pc = "lexing" /\ lexer.position >= Len(Input))
        => /\ Last(tokens') = Token("EOF", <<>>)
           /\ lexer'.ch = lexer.ch
           /\ lexer'.input = lexer.input
           /\ lexer'.position = lexer.read_position
           /\ lexer'.read_position = lexer.read_position + 1]_vars

\* two calls made after the input `x` was exhausted, both answered with EOF
C18_Witness ==
    /\ pc = "lexing"
    /\ Input = <<"x">>
    /\ tokens = <<Token("Ident", <<"x">>), Token("EOF", <<>>), Token("EOF", <<>>)>>
    /\ lexer.ch = NUL
    /\ lexer.position = 3

(***************************************************************************)
(* Keywords and identifiers (C19)                                          *)
(***************************************************************************)

\* the keywords with their kinds
KeywordKinds ==
    {<< <<"f","n">>, "Function" >>, << <<"l","e","t">>, "Let" >>,
     << <<"t","r","u","e">>, "True" >>, << <<"f","a","l","s","e">>, "False" >>,
     << <<"i","f">>, "If" >>, << <<"e","l","s","e">>, "Else" >>,
     << <<"r","e","t","u","r","n">>, "Return" >>}

\* runs of letters and underscores: the keywords, and runs that are none
RunWords ==
    {kw[1] : kw \in KeywordKinds}
    \cup {<<"x">>, <<"l","e","t","s">>, <<"L","e","t">>, <<"e","l","s","e","_">>}

\* what ends a run: a space or a digit
RunEnds == {" ", "5"}

\* the most runs of a text
MaxRuns == 2

RunPieces == {run \o <<end>> : run \in RunWords, end \in RunEnds}

RunSources == {Concat(ps) : ps \in SeqsUpTo(RunPieces, MaxRuns) \ {<<>>}}

InitRuns == InitOn(RunSources)

SpecRuns == InitRuns /\ [][Next]_vars

RECURSIVE RunsOf(_, _, _)
\* the maximal runs of letters and underscores of text from index i on,
\* run being the run that is open at i
RunsOf(text, i, run) ==
    IF i > Len(text) THEN (IF run = <<>> THEN <<>> ELSE <<run>>)
    ELSE IF text[i] \in Letters \cup {"_"} THEN RunsOf(text, i + 1, Append(run, text[i]))
    ELSE (IF run = <<>> THEN <<>> ELSE <<run>>) \o RunsOf(text, i + 1, <<>>)

\* the kind the claim gives a run
RunKind(run) ==
    IF \E kw \in KeywordKinds : kw[1] = run
    THEN (CHOOSE kw \in KeywordKinds : kw[1] = run)[2]
    ELSE "Ident"

\* the tokens the claim gives the runs of the source text
RunTokens ==
    [i \in 1..Len(RunsOf(Input, 1, <<>>)) |->
        Token(RunKind(RunsOf(Input, 1, <<>>)[i]), RunsOf(Input, 1, <<>>)[i])]

\* the token is a keyword or an identifier
IsWordToken(t) == t.kind \in {kw[2] : kw \in KeywordKinds} \cup {"Ident"}

\* the keywords and identifiers among the tokens returned so far
WordTokens == SelectSeq(tokens, IsWordToken)

\* C19: the keywords and identifiers next_token returns are, in order, the
\* maximal runs of letters and underscores of the text: each with the exact
\* run as its literal, with the reserved kind when the run is one of `fn`,
\* `let`, `true`, `false`, `if`, `else`, `return`, and with kind Ident
\* otherwise.
C19_KeywordClassification ==
    pc = "lexing"
        => /\ Len(WordTokens) <= Len(RunTokens)
           /\ WordTokens = SubSeq(RunTokens, 1, Len(WordTokens))
           /\ (tokens # <<>> /\ Last(tokens).kind = "EOF")
                => WordTokens = RunTokens

\* `return5lets ` lexed to the end
C19_Witness ==
    /\ pc = "lexing"
    /\ Input = <<"r","e","t","u","r","n","5","l","e","t","s"," ">>
    /\ tokens = <<Token("Return", <<"r","e","t","u","r","n">>), Token("Int", <<"5">>),
                  Token("Ident", <<"l","e","t","s">>), Token("EOF", <<>>)>>
    /\ WordTokens = RunTokens

(***************************************************************************)
(* One-character operators and delimiters (C20)                            *)
(***************************************************************************)

\* the one-character operators and delimiters with their kinds
PunctKinds ==
    {<<"=", "Assign">>, <<"+", "Plus">>, <<"-", "Minus">>, <<"!", "Bang">>,
     <<"*", "Asterisk">>, <<"/", "Slash">>, <<"<", "LT">>, <<">", "GT">>,
     <<"(", "LParen">>, <<")", "RParen">>, <<"{", "LBrace">>, <<"}", "RBrace">>,
     <<",", "Comma">>, <<";", "Semicolon">>}

PunctChars == {pk[1] : pk \in PunctKinds}

\* the longest text of such characters
MaxPunct == 2

PunctSources == SeqsUpTo(PunctChars, MaxPunct)

InitPunct == InitOn(PunctSources)

SpecPunct == InitPunct /\ [][Next]_vars

\* the kind the claim gives the character c
PunctKind(c) == (CHOOSE pk \in PunctKinds : pk[1] = c)[2]

\* C20: on a text of n one-character operators and delimiters the i-th call
\* of next_token returns, for i <= n, the token with the kind of the i-th
\* character and that character as its literal, and every later call
\* returns the EOF token with the empty literal.
C20_PunctuationTokens ==
    pc = "lexing"
        => \A i \in 1..Len(tokens) :
              tokens[i] = IF i <= Len(Input)
                          THEN Token(PunctKind(Input[i]), <<Input[i]>>)
                          ELSE Token("EOF", <<>>)

\* `<=` lexed, and two more calls made
C20_Witness ==
    /\ pc = "lexing"
    /\ Input = <<"<", "=">>
    /\ tokens = <<Token("LT", <<"<">>), Token("Assign", <<"=">>),
                  Token("EOF", <<>>), Token("EOF", <<>>)>>

(***************************************************************************)
(* Empty and blank source texts                                            *)
(***************************************************************************)

\* the longest blank source text, in characters
MaxBlank == 3

\* texts of whitespace, and texts where whitespace surrounds an integer
BlankSources == SeqsUpTo(Whitespace \cup {"5"}, MaxBlank)

InitBlank == InitOn(BlankSources)

SpecBlank == InitBlank /\ [][Next]_vars

IsBlank(text) == \A i \in 1..Len(text) : text[i] \in Whitespace

\* C21: an empty source text, or one made only of whitespace, is parsed
\* without panic or divergence into a Program with zero statements and an
\* empty error list, and that program evaluates to Null.
C21_BlankProgram ==
    IsBlank(Input) =>
        /\ pc \in {"lexing", "parsing", "parsed", "evaluated"}
        /\ pc = "parsing" => cur_token_is(parser, "EOF")
        /\ pc \in {"parsing", "parsed", "evaluated"} => program = <<>> /\ errors = <<>>
        /\ pc = "evaluated" => result = NULL

\* the program of a text of three whitespace characters, two of them not
\* the space, has been evaluated
C21_Witness ==
    /\ pc = "evaluated"
    /\ Input = <<"\t", " ", "\n">>
    /\ program = <<>>
    /\ result = NULL

(***************************************************************************)
(* The optional trailing semicolon                                         *)
(***************************************************************************)

\* the longest operator expression of a statement, in words
MaxSemiTokens == 3

\* the expressions of the statements: operator expressions, the two
\* equality operators of the grammar, a call, an if and a function literal
SemiExpressions ==
    UNION {ExprsOfSize(n) : n \in 1..MaxSemiTokens}
    \cup {<<l, op, r>> : l \in ExprAtoms, op \in EqualityOperators, r \in ExprAtoms}
    \cup {<< <<"a">>, <<"(">>, <<"7">>, <<",">>, <<"a">>, <<")">> >>,
          << <<"i","f">>, <<"(">>, <<"a">>, <<")">>, <<"{">>, <<"7">>, <<"}">> >>,
          << <<"f","n">>, <<"(">>, <<"a">>, <<")">>, <<"{">>, <<"a">>, <<"}">> >>}

\* a let statement, a return statement with a value and an expression
\* statement, without the semicolon
SemiStatements ==
    {<< <<"l","e","t">>, <<"x">>, <<"=">> >> \o e : e \in SemiExpressions}
    \cup {<< <<"r","e","t","u","r","n">> >> \o e : e \in SemiExpressions}
    \cup SemiExpressions

\* each statement alone in the source text, without and with one semicolon
SemiSources ==
    {Join(s) : s \in SemiStatements} \cup {Join(Append(s, <<";">>)) : s \in SemiStatements}

InitSemi == InitOn(SemiSources)

SpecSemi == InitSemi /\ [][Next]_vars

\* the words of a statement without its trailing semicolon
WithoutSemicolon(ws) ==
    IF Last(ws) = <<";">> THEN SubSeq(ws, 1, Len(ws) - 1) ELSE ws

\* the same statement written the other way
OtherWay(ws) ==
    IF Last(ws) = <<";">> THEN SubSeq(ws, 1, Len(ws) - 1) ELSE Append(ws, <<";">>)

C23_ErrorsAppendOnly ==
    /\ errors = <<>>
    /\ [][/\ Len(errors) <= Len(errors')
          /\ SubSeq(errors', 1, Len(errors)) = errors]_vars

\* a second message, of the other kind, has been appended after a first
C23_Witness ==
    /\ pc = "parsed"
    /\ Len(errors) = 2
    /\ errors[1].msg = "expected next token"
    /\ errors[2].msg = "no prefix parse function"

(***************************************************************************)
(* The parser's steps.  A run calls the two methods every parsing function *)
(* is built from, Parser::next_token and Parser::expect_peek, one call at  *)
(* a time on a parser fresh from Parser::new.                              *)
(***************************************************************************)

\* the words of the source texts, and the longest text in words
StepWords == {<<"l","e","t">>, <<"x">>, <<"=">>, <<"(">>, <<")">>, <<"@">>}
MaxStepWords == 2

StepSources == {Join(ws) : ws \in SeqsUpTo(StepWords, MaxStepWords)}

\* kinds the parsing functions pass to expect_peek
ExpectedKinds == {"Ident", "Assign", "LParen", "RParen"}

\* how many failed calls of expect_peek a run makes
MaxExpectErrors == 2

\* the parser p in the variables, fresh from Parser::new
InitStepsOn(p) ==
    /\ lexer = p.lexer
    /\ cur_token = p.cur_token
    /\ peek_token = p.peek_token
    /\ errors = p.errors
    /\ cur_tokens = <<p.cur_token>>

InitSteps ==
    /\ \E input \in StepSources : InitStepsOn(Parser_new(Lexer_new(input)))
    /\ pc = "stepping"
    /\ tokens = <<>>
    /\ program = <<>>
    /\ result = NULL
    /\ returned = NONE
    /\ stdin = <<>>
    /\ stdout = <<>>

\* the parser p replaces the one in the variables
ParserBecomes(p) ==
    /\ lexer' = p.lexer
    /\ cur_token' = p.cur_token
    /\ peek_token' = p.peek_token
    /\ errors' = p.errors

\* a call of Parser::next_token
ParserNextToken ==
    /\ pc = "stepping"
    /\ Len(cur_tokens) < Len(lexer.input) + MaxExtraCalls
    /\ ParserBecomes(next_token(parser))
    /\ cur_tokens' = Append(cur_tokens, next_token(parser).cur_token)
    /\ returned' = NONE
    /\ UNCHANGED <<tokens, program, result, stdin, stdout, pc>>

\* expect_peek(token_kind) returns r: its true branch has called next_token
ExpectPeekReturns(token_kind, r) ==
    /\ ParserBecomes(r.p)
    /\ cur_tokens' = IF r.ok THEN Append(cur_tokens, r.p.cur_token) ELSE cur_tokens
    /\ returned' = [fn |-> "expect_peek", token_kind |-> token_kind, val |-> r.ok]

\* a call of Parser::expect_peek
ExpectPeek ==
    /\ pc = "stepping"
    /\ Len(cur_tokens) < Len(lexer.input) + MaxExtraCalls
    /\ Len(errors) < MaxExpectErrors
    /\ \E token_kind \in ExpectedKinds :
          ExpectPeekReturns(token_kind, expect_peek(parser, token_kind))
    /\ UNCHANGED <<tokens, program, result, stdin, stdout, pc>>

NextSteps == ParserNextToken \/ ExpectPeek

SpecSteps == InitSteps /\ [][NextSteps]_vars

\* C24: expect_peek(k), when the peek token has kind k, advances the token
\* window by exactly one token, appends no error and returns true; otherwise
\* it leaves cur_token, peek_token and the lexer unchanged, appends exactly
\* one error naming k and the actual peek kind, and returns false.
C24_ExpectPeekFrame ==
    [][(returned' # NONE /\ returned'.fn = "expect_peek") =>
          IF peek_token.kind = returned'.token_kind
          THEN /\ cur_token' = peek_token
               /\ peek_token' = Lexer_next_token(lexer).token
               /\ lexer' = Lexer_next_token(lexer).lx
               /\ cur_tokens' = Append(cur_tokens, peek_token)
               /\ errors' = errors
               /\ returned'.val = TRUE
          ELSE /\ cur_token' = cur_token
               /\ peek_token' = peek_token
               /\ lexer' = lexer
               /\ cur_tokens' = cur_tokens
               /\ errors' = Append(errors,
                     [msg |-> "expected next token",
                      expected |-> returned'.token_kind, got |-> peek_token.kind])
               /\ returned'.val = FALSE]_vars

\* on `let x`: expect_peek(Assign) has failed on the peek token `x`, and then
\* expect_peek(Ident) has succeeded and moved the window onto it
C24_Witness ==
    /\ pc = "stepping"
    /\ Input = <<"l","e","t"," ","x">>
    /\ returned = [fn |-> "expect_peek", token_kind |-> "Ident", val |-> TRUE]
    /\ cur_token = Token("Ident", <<"x">>)
    /\ peek_token.kind = "EOF"
    /\ errors = <<[msg |-> "expected next token", expected |-> "Assign", got |-> "Ident"]>>

\* the first n tokens the lexer lx returns
RECURSIVE LexerOutput(_, _)
LexerOutput(lx, n) ==
    IF n = 0 THEN <<>>
    ELSE <<Lexer_next_token(lx).token>> \o LexerOutput(Lexer_next_token(lx).lx, n - 1)

\* C27: the two-token window: after Parser::new and after every
\* Parser::next_token (expect_peek's included), the successive values of
\* cur_token are exactly the first tokens of the lexer's output on the source
\* text, none skipped, duplicated or reordered, and peek_token is the token
\* the lexer returns next.
C27_TokenWindow ==
    pc = "stepping" =>
        /\ cur_tokens =
              SubSeq(LexerOutput(Lexer_new(Input), Len(cur_tokens) + 1),
                     1, Len(cur_tokens))
        /\ cur_token = Last(cur_tokens)
        /\ peek_token =
              Last(LexerOutput(Lexer_new(Input), Len(cur_tokens) + 1))

\* the window has moved twice over `let x`: cur_token has been `let`, `x` and
\* the end of the input
C27_Witness ==
    /\ pc = "stepping"
    /\ Input = <<"l","e","t"," ","x">>
    /\ cur_tokens = <<Token("Let", <<"l","e","t">>), Token("Ident", <<"x">>),
                      Token("EOF", <<>>)>>
    /\ cur_token.kind = "EOF"
    /\ peek_token.kind = "EOF"
    /\ errors = <<>>

(***************************************************************************)
(* The loop of parse_expression.  A run is one call of                     *)
(* parse_expression(Lowest) on a parser fresh from Parser::new, as         *)
(* parse_expression_statement makes it: the prefix rule, then one turn of  *)
(* the `while` loop per step.                                              *)
(***************************************************************************)

ExpressionWords ==
    {<<"a">>, <<"+">>, <<"*">>, <<"(">>, <<")">>, <<"=">>, <<";">>, <<"@">>}
MaxExpressionWords == 4

ExpressionSources == {Join(ws) : ws \in SeqsUpTo(ExpressionWords, MaxExpressionWords)}

InitExpression ==
    /\ \E input \in ExpressionSources : InitStepsOn(Parser_new(Lexer_new(input)))
    /\ pc = "expression"
    /\ tokens = <<>>
    /\ program = <<>>
    /\ result = NULL
    /\ returned = NONE
    /\ stdin = <<>>
    /\ stdout = <<>>

\* a prefix or infix rule ends with r: left_exp is what it returned
RuleEnds(r) ==
    /\ ParserBecomes(r.p)
    /\ returned' = IF r.st = "ok" THEN [fn |-> "left_exp", val |-> r.val] ELSE returned
    /\ pc' = CASE r.st = "panic" -> "panicked"
               [] r.st = "diverge" -> "diverged"
               [] OTHER -> "expression_loop"

\* `let mut left_exp = prefix_fn(self)`, or the error of a missing rule
PrefixRule ==
    /\ pc = "expression"
    /\ IF cur_token.kind \in DOMAIN prefix_parse_fns
       THEN RuleEnds(call_prefix_fn(prefix_parse_fns[cur_token.kind], parser))
       ELSE /\ ParserBecomes(no_prefix_parse_fn_error(parser, cur_token.kind))
            /\ returned' = [fn |-> "parse_expression", val |-> NONE]
            /\ pc' = "expression_returned"
    /\ UNCHANGED <<tokens, program, result, cur_tokens, stdin, stdout>>

\* the condition of the `while` loop, for the bound precedence_level
LoopCondition(p, precedence_level) ==
    ~peek_token_is(p, "Semicolon") /\ precedence_level < peek_precedence(p)

\* one turn of the loop: the infix rule of the peek token is called with
\* left_exp; without a rule the turn changes nothing and the loop spins
InfixRule ==
    /\ pc = "expression_loop"
    /\ LoopCondition(parser, Lowest)
    /\ IF peek_token.kind \in DOMAIN infix_parse_fns
       THEN IF returned.val = NONE
            THEN pc' = "panicked"
                 /\ UNCHANGED <<lexer, cur_token, peek_token, errors, returned>>
            ELSE RuleEnds(call_infix_fn(infix_parse_fns[peek_token.kind], parser,
                                        returned.val))
       ELSE pc' = "spinning"
            /\ UNCHANGED <<lexer, cur_token, peek_token, errors, returned>>
    /\ UNCHANGED <<tokens, program, result, cur_tokens, stdin, stdout>>

\* the loop ends and parse_expression returns left_exp
ExpressionReturn ==
    /\ pc = "expression_loop"
    /\ ~LoopCondition(parser, Lowest)
    /\ pc' = "expression_returned"
    /\ returned' = [fn |-> "parse_expression", val |-> returned.val]
    /\ UNCHANGED <<lexer, tokens, cur_token, peek_token, errors, program, result,
                   cur_tokens, stdin, stdout>>

NextExpression == PrefixRule \/ InfixRule \/ ExpressionReturn

SpecExpression == InitExpression /\ [][NextExpression]_vars

\* the parser after n calls of next_token
RECURSIVE Advance(_, _)
Advance(p, n) == IF n = 0 THEN p ELSE Advance(next_token(p), n - 1)

\* the token window of p and the lexer behind it
WindowOf(p) == <<p.cur_token, p.peek_token, p.lexer>>

\* C25: the loop of parse_expression never spins: every kind precedence_map
\* places above Lowest has an infix rule, so in every state of the loop where
\* the peek token is not a semicolon and its precedence exceeds the bound a
\* rule is registered for its kind; and a rule that returns has consumed at
\* least one token: it leaves the window where one or more calls of
\* next_token take it.
C25_LoopNeverSpins ==
    /\ \A kind \in TokenKind, level \in Lowest..Call :
          level < precedence_map(kind) => kind \in DOMAIN infix_parse_fns
    /\ [](pc # "spinning")
    /\ []((pc = "expression_loop" /\ LoopCondition(parser, Lowest))
             => peek_token.kind \in DOMAIN infix_parse_fns)
    /\ [][(pc = "expression_loop" /\ pc' = "expression_loop") =>
             \E n \in 1..(Len(Input) + MaxExtraCalls) :
                WindowOf(parser') = WindowOf(Advance(parser, n))]_vars

\* on `a * a +`: the rule of `*` has returned with its Infix node, and the
\* loop stands before a second turn, the rule of `+`
C25_Witness ==
    /\ pc = "expression_loop"
    /\ Input = <<"a"," ","*"," ","a"," ","+">>
    /\ returned.val.node = "Infix"
    /\ cur_token.literal = <<"a">>
    /\ peek_token.kind = "Plus"
    /\ LoopCondition(parser, Lowest)

(***************************************************************************)
(* The read-eval-print loop (repl.rs, start).  A run is one call of start  *)
(* on a standard input of some lines: each turn of its `loop` prompts,     *)
(* reads a line, builds a lexer and a parser on it, parses and prints.     *)
(* stdout holds what the current turn has written.                         *)
(***************************************************************************)

\* the lines typed, without their line ends
ReplLines ==
    {<<"5">>,
     <<"a"," ","+"," ","5",";">>,
     <<"l","e","t"," ","x"," ","5">>,
     <<"i","f"," ","(",")">>,
     <<"@">>}

\* how many lines standard input holds before its end
MaxLines == 2

\* what start writes: the prompt, the line of print_parse_errors, one parser
\* error, the text of a program, the report of a failed read
Write(text) == [write |-> text]
WriteError(error) == [write |-> "error", error |-> error]
WriteProgram(text) == [write |-> "program", text |-> text]

\* print_parse_errors: what it writes for errors
print_parse_errors(errs) ==
    <<Write("Oops! We ran into parser errors")>> \o [i \in 1..Len(errs) |-> WriteError(errs[i])]

\* start is called: nothing is read or parsed yet
InitRepl ==
    /\ stdin \in SeqsUpTo(ReplLines, MaxLines)
    /\ stdout = <<>>
    /\ pc = "prompt"
    /\ lexer = Lexer_new(<<>>)
    /\ cur_token = DefaultToken
    /\ peek_token = DefaultToken
    /\ errors = <<>>
    /\ program = <<>>
    /\ tokens = <<>>
    /\ result = NULL
    /\ returned = NONE
    /\ cur_tokens = <<>>

\* write!(stdout, ">> ") and the flush
ReplPrompt ==
    /\ pc = "prompt"
    /\ stdout' = <<Write(">> ")>>
    /\ pc' = "reading"
    /\ UNCHANGED <<lexer, tokens, cur_token, peek_token, errors, program, result,
                   returned, cur_tokens, stdin>>

\* the line read_line puts into input: the next line with its line end, or
\* nothing (zero bytes read) at the end of standard input
LineRead(in) == IF in = <<>> THEN <<>> ELSE Append(Head(in), "\n")

\* read_line succeeds; Lexer::new(&input), Parser::new(lexer), and
\* parse_program starts on its empty Program
ReplReadLine ==
    /\ pc = "reading"
    /\ stdin' = IF stdin = <<>> THEN <<>> ELSE Tail(stdin)
    /\ ParserBecomes(Parser_new(Lexer_new(LineRead(stdin))))
    /\ program' = <<>>
    /\ pc' = "parsing"
    /\ UNCHANGED <<tokens, result, returned, cur_tokens, stdout>>

\* read_line fails: start reports it and returns
ReplReadError ==
    /\ pc = "reading"
    /\ stdout' = Append(stdout, Write("Failed to read from stdin"))
    /\ pc' = "returned"
    /\ UNCHANGED <<lexer, tokens, cur_token, peek_token, errors, program, result,
                   returned, cur_tokens, stdin>>

\* parse_program has returned: the errors and `continue`, or the program's
\* print_string; then the next turn of the loop
ReplPrint ==
    /\ pc = "parsed"
    /\ stdout' = IF Len(errors) # 0
                 THEN stdout \o print_parse_errors(errors)
                 ELSE Append(stdout, WriteProgram(Program_print_string(program)))
    /\ pc' = "prompt"
    /\ UNCHANGED <<lexer, tokens, cur_token, peek_token, errors, program, result,
                   returned, cur_tokens, stdin>>

NextRepl ==
    \/ ReplPrompt
    \/ ReplReadLine
    \/ ReplReadError
    \/ ParseStatement
    \/ ParseProgramReturn
    \/ ReplPrint

\* read_line at the end of standard input: it returns at once
ReplReadEof == stdin = <<>> /\ ReplReadLine

\* start runs on one thread.  Fairness is stated for the turn of its loop at
\* the end of standard input, where nothing can hold it up: the prompt is
\* written, read_line returns at once, parse_program returns on the empty
\* text, and the result is printed.
SpecRepl ==
    /\ InitRepl
    /\ [][NextRepl]_vars
    /\ WF_vars(ReplPrompt)
    /\ WF_vars(ReplReadEof)
    /\ WF_vars(ParseProgramReturn)
    /\ WF_vars(ReplPrint)

\* the turn has printed
HasPrinted == pc = "prompt" /\ Len(stdout) > 1

\* C26: the REPL shows the text of a line's program only when the parser's
\* error list for that line is empty; when it is non-empty the REPL prints
\* the error messages and no program text, and goes on to the next prompt
\* (no line with errors stops it), where the parser is built afresh: its
\* errors are those of the new line alone.
C26_ReplShowsErrors ==
    /\ (HasPrinted /\ errors = <<>>)
          => stdout = <<Write(">> "), WriteProgram(Program_print_string(program))>>
    /\ (HasPrinted /\ errors # <<>>)
          => stdout = <<Write(">> "), Write("Oops! We ran into parser errors")>>
                         \o [i \in 1..Len(errors) |-> WriteError(errors[i])]
    /\ errors # <<>> => pc \notin {"panicked", "diverged"}
    /\ pc = "parsed" => errors = Reparse(Input).p.errors

\* standard input is at its end and read_line has read zero bytes
ReadEof == pc = "parsing" /\ stdin = <<>> /\ Input = <<>>

\* C28: when standard input reaches its end (read_line succeeds with zero
\* bytes read), the loop of start eventually stops prompting and returns.
C28_ReplReturnsAtEof == ReadEof ~> (pc = "returned")

(***************************************************************************)
(* The values of an evaluation                                             *)
(***************************************************************************)

\* the variants of Object other than ReturnValue
PlainTypes == {"Integer", "Boolean", "Null"}

\* the evaluation r, if it yields a value, yields one of these
IsPlain(r) == r.st = "ok" => r.val.type \in PlainTypes

\* every value handed to a prefix or an infix operator inside expression
RECURSIVE OperandsArePlain(_, _)
OperandsArePlain(expression, overflow_checks) ==
    IF expression = NONE THEN TRUE
    ELSE CASE expression.node = "Prefix" ->
                 /\ IsPlain(eval_expression(expression.right, overflow_checks))
                 /\ OperandsArePlain(expression.right, overflow_checks)
           [] expression.node = "Infix" ->
                 /\ IsPlain(eval_expression(expression.left, overflow_checks))
                 /\ IsPlain(eval_expression(expression.right, overflow_checks))
                 /\ OperandsArePlain(expression.left, overflow_checks)
                 /\ OperandsArePlain(expression.right, overflow_checks)
           [] OTHER -> TRUE

\* C29: the value eval_program returns, the value of every statement, and
\* every value passed to a prefix or infix operator is an Integer, a Boolean
\* or Null: no evaluation produces an Object::ReturnValue, return statements
\* included.
C29_NoReturnValue ==
    /\ pc = "evaluated" => result.type \in PlainTypes
    /\ pc \in {"parsed", "evaluated", "eval_panicked"} =>
          \A overflow_checks \in BOOLEAN :
             /\ IsPlain(eval_program(program, overflow_checks))
             /\ \A i \in 1..Len(program) :
                   /\ IsPlain(eval_statement(program[i], overflow_checks))
                   /\ program[i].node = "Expression" =>
                         OperandsArePlain(program[i].expression, overflow_checks)

\* `-5; return 5;` has been evaluated: an operator has had its operand, and
\* the return statement has yielded Null
C29_Witness ==
    /\ pc = "evaluated"
    /\ Len(program) = 2
    /\ program[1].node = "Expression"
    /\ program[1].expression.node = "Prefix"
    /\ program[2].node = "Return"
    /\ program[2].return_value # NONE
    /\ result = NULL

(***************************************************************************)
(* Tokenizing character by character                                       *)
(***************************************************************************)

\* the characters of the source texts: letters, a digit, whitespace,
\* one-character tokens, and a character the lexer does not know
TextChars == {"a", "_", "5", " ", "\n", "=", "(", "!", "@"}

\* the longest such text, in characters
MaxChars == 3

CharSources == SeqsUpTo(TextChars, MaxChars)

InitChars == InitOn(CharSources)

SpecChars == InitChars /\ [][Next]_vars

\* whitespace and the characters the tokenizer recognises
IsRecognised(ch) ==
    ch \in Whitespace \/ is_letter(ch) \/ is_digit(ch) \/ SingleCharKind(ch) # "none"

NotWhitespace(ch) == ch \notin Whitespace

\* how many tokens were returned before the first EOF
RECURSIVE BeforeEof(_, _)
BeforeEof(toks, i) ==
    IF i > Len(toks) \/ toks[i].kind = "EOF" THEN i - 1 ELSE BeforeEof(toks, i + 1)

\* the literals of the first n tokens, concatenated
Literals(toks, n) == Concat([i \in 1..n |-> toks[i].literal])

\* C30: tokenizing loses nothing: on a text of whitespace and recognised
\* characters no token is Illegal, the literals of the tokens returned before
\* the first EOF, concatenated in order, are the text without its whitespace
\* as far as it has been read, and the whole of it once EOF is returned; EOF
\* is returned only after the last character has been consumed, and at the
\* latest by the call after as many calls as the text has characters.
C30_TokenizingLosesNothing ==
    (pc = "lexing" /\ \A i \in 1..Len(Input) : IsRecognised(Input[i])) =>
        /\ \A i \in 1..Len(tokens) : tokens[i].kind # "Illegal"
        /\ Len(Literals(tokens, BeforeEof(tokens, 1)))
              <= Len(SelectSeq(Input, NotWhitespace))
        /\ Literals(tokens, BeforeEof(tokens, 1)) =
              SubSeq(SelectSeq(Input, NotWhitespace), 1,
                     Len(Literals(tokens, BeforeEof(tokens, 1))))
        /\ BeforeEof(tokens, 1) < Len(tokens) =>
              /\ Literals(tokens, BeforeEof(tokens, 1)) = SelectSeq(Input, NotWhitespace)
              /\ lexer.position >= Len(Input)
        /\ Len(tokens) > Len(Input) => BeforeEof(tokens, 1) < Len(tokens)

\* `_`, a line end and `5`: an identifier and a number have been returned,
\* and then EOF
C30_Witness ==
    /\ pc = "lexing"
    /\ Input = <<"_", "\n", "5">>
    /\ Len(tokens) = 3
    /\ tokens[1] = Token("Ident", <<"_">>)
    /\ tokens[2] = Token("Int", <<"5">>)
    /\ tokens[3].kind = "EOF"

====
